---- MODULE Spec2Model ----
(***************************************************************************)
(* SimpleStore (stand_alone_version/index.ts) and its dot-path helpers     *)
(* (utils.ts): one JSON document in a file, an in-memory cache (_store)    *)
(* per instance, change listeners, and the timer that clear() schedules.   *)
(* Also: the constructor run in a process of its own (pending), the calls  *)
(* atomicWriteFileSync makes on the file system (writer), the bridge of    *)
(* initRenderer()/cleanupMain() (bridge), this.path and the project        *)
(* version (fields), and the generator of [Symbol.iterator]() (iter).      *)
(*                                                                         *)
(* A JSON value is a TLA+ function: an object is a function from its own   *)
(* keys to values (the empty object is <<>>) and a primitive p is the      *)
(* one-field record [prim |-> p]; "prim" is never used as an object key.   *)
(* A path string is a sequence of one-character strings, so that           *)
(* String.split('.') and String.includes('.') are computed, not assumed.   *)
(*                                                                         *)
(* index.ts destructures the result of deleteProperty as [newObject,       *)
(* wasDeleted]; the helpers modelled here are therefore those of the       *)
(* utils revision that returns that pair (deep-cloning setProperty and     *)
(* deleteProperty).  getProperty, isDeepStrictEqual and atomicWriteFileSync*)
(* are the same in both revisions of utils.                                *)
(***************************************************************************)
EXTENDS Integers, Sequences, FiniteSets, TLC

VARIABLES disk, cache, defaults, constructed, keyListeners, anyListeners,
          handles, timers, pending, writer, bridge, fields, iter, last

vars == <<disk, cache, defaults, constructed, keyListeners, anyListeners,
          handles, timers, pending, writer, bridge, fields, iter, last>>

(***************************************************************************)
(* Bounds of the model.                                                    *)
(***************************************************************************)
\* pending setTimeout callbacks of clear() per instance
MaxTimers == 2
\* subscriptions made on one instance (onDidChange and onDidAnyChange calls)
MaxListeners == 2

(***************************************************************************)
(* JSON values.                                                            *)
(***************************************************************************)
P(s) == [prim |-> s]

Undefined == P("undefined")

True == P("true")

False == P("false")

EmptyDoc == <<>>

\* typeof v === 'object' && v !== null
IsObject(v) == "prim" \notin DOMAIN v

\* Object.prototype.hasOwnProperty.call(o, k)
HasOwn(o, k) == IsObject(o) /\ k \in DOMAIN o

\* o[k] = v on a copy of o
Put(o, k, v) == [x \in (DOMAIN o) \cup {k} |-> IF x = k THEN v ELSE o[x]]

\* delete o[k] on a copy of o
Remove(o, k) == [x \in (DOMAIN o) \ {k} |-> o[x]]

\* Object.assign({...a}, b) and the for-in copy of own keys: b's fields win
Assign(a, b) == [x \in (DOMAIN a) \cup (DOMAIN b) |-> IF x \in DOMAIN b THEN b[x] ELSE a[x]]

(***************************************************************************)
(* JSON.stringify / JSON.parse.  A field whose value is undefined is not   *)
(* written, at any depth; everything else survives the round trip.         *)
(***************************************************************************)
RECURSIVE Strip(_)
Strip(v) ==
    IF ~IsObject(v) THEN v
    ELSE [k \in {x \in DOMAIN v : v[x] # Undefined} |-> Strip(v[k])]

NoFile == [kind |-> "none", doc |-> EmptyDoc]

Garbage == [kind |-> "garbage", doc |-> EmptyDoc]

\* JSON.stringify(doc, null, '\t'): the text of a file holding doc
Stringify(doc) == [kind |-> "json", doc |-> Strip(doc)]

\* fs.readFileSync + JSON.parse succeed
Readable(f) == f.kind = "json"

\* JSON.parse(fs.readFileSync(path)) when it succeeds
Parse(f) == f.doc

\* JSON.parse(JSON.stringify(doc)): the deep clone used by set, delete, clear
Clone(doc) == Parse(Stringify(doc))

(***************************************************************************)
(* Path strings.                                                           *)
(***************************************************************************)
RECURSIVE Str(_)
\* the string whose characters are cs
Str(cs) == IF cs = <<>> THEN "" ELSE Head(cs) \o Str(Tail(cs))

\* path.includes('.')
Includes(cs, c) == \E i \in 1..Len(cs) : cs[i] = c

RECURSIVE SplitFrom(_, _, _)
SplitFrom(cs, i, cur) ==
    IF i > Len(cs) THEN <<cur>>
    ELSE IF cs[i] = "." THEN <<cur>> \o SplitFrom(cs, i + 1, "")
    ELSE SplitFrom(cs, i + 1, cur \o cs[i])

\* propertyPath.split('.')
Split(cs) == SplitFrom(cs, 1, "")

\* key arguments that are not strings (a number, null): each is written as a
\* one-element sequence naming the value; no path string has an element of more
\* than one character, so none of them is the encoding of a string
NonStringKeys == {<<"123">>, <<"null">>}

\* typeof propertyPath === 'string'
IsString(propertyPath) == propertyPath \notin NonStringKeys

(***************************************************************************)
(* utils: getProperty, setProperty, hasProperty, deleteProperty,           *)
(* isDeepStrictEqual.                                                      *)
(***************************************************************************)
RECURSIVE GetWalk(_, _, _, _)
GetWalk(current, parts, i, dflt) ==
    IF i > Len(parts)
    THEN (IF current = Undefined THEN dflt ELSE current)
    ELSE IF ~HasOwn(current, parts[i]) THEN dflt
    ELSE GetWalk(current[parts[i]], parts, i + 1, dflt)

getProperty(object, propertyPath, defaultValue) ==
    GetWalk(object, Split(propertyPath), 1, defaultValue)

RECURSIVE SetWalk(_, _, _, _)
SetWalk(current, parts, i, value) ==
    IF i = Len(parts) THEN Put(current, parts[i], value)
    ELSE LET child == IF HasOwn(current, parts[i]) /\ IsObject(current[parts[i]])
                      THEN current[parts[i]]
                      ELSE EmptyDoc
         IN  Put(current, parts[i], SetWalk(child, parts, i + 1, value))

\* a setProperty that starts from an empty object instead of a clone
setPropertyFromEmpty(object, propertyPath, value) ==
    SetWalk(EmptyDoc, Split(propertyPath), 1, value)

setProperty(object, propertyPath, value) ==
    SetWalk(Clone(object), Split(propertyPath), 1, value)

RECURSIVE HasWalk(_, _, _)
HasWalk(current, parts, i) ==
    IF i > Len(parts) THEN current # Undefined
    ELSE IF ~HasOwn(current, parts[i]) THEN FALSE
    ELSE HasWalk(current[parts[i]], parts, i + 1)

hasProperty(object, propertyPath) ==
    LET parts == Split(propertyPath)
    IN  IF Len(parts) = 1 THEN HasOwn(object, Str(propertyPath))
        ELSE HasWalk(object, parts, 1)

RECURSIVE DelWalk(_, _, _)
\* <<the object after the walk, whether the leaf was deleted>>
DelWalk(current, parts, i) ==
    IF i = Len(parts)
    THEN IF HasOwn(current, parts[i])
         THEN <<Remove(current, parts[i]), TRUE>>
         ELSE <<current, FALSE>>
    ELSE IF ~HasOwn(current, parts[i]) \/ ~IsObject(current[parts[i]])
         THEN <<current, FALSE>>
         ELSE LET r == DelWalk(current[parts[i]], parts, i + 1)
              IN  <<Put(current, parts[i], r[1]), r[2]>>

deleteProperty(object, propertyPath) ==
    LET result == Clone(object)
        parts  == Split(propertyPath)
    IN  IF Len(parts) = 1
        THEN <<Remove(result, parts[1]), HasOwn(result, parts[1])>>
        ELSE DelWalk(result, parts, 1)

RECURSIVE isDeepStrictEqual(_, _)
isDeepStrictEqual(objA, objB) ==
    IF ~IsObject(objA) \/ ~IsObject(objB)
    THEN ~IsObject(objA) /\ ~IsObject(objB) /\ objA.prim = objB.prim
    ELSE /\ Cardinality(DOMAIN objA) = Cardinality(DOMAIN objB)
         /\ \A key \in DOMAIN objA :
               /\ key \in DOMAIN objB
               /\ isDeepStrictEqual(objA[key], objB[key])

(***************************************************************************)
(* utils: atomicWriteFileSync.  writeFileSync to a temporary sibling, then *)
(* renameSync onto the target; when either throws the target keeps its     *)
(* content and the error is thrown again.  ok says whether both succeed.   *)
(***************************************************************************)
atomicWriteFileSync(file, data, ok) == IF ok THEN data ELSE file

(***************************************************************************)
(* Inputs of the operations.                                               *)
(***************************************************************************)
Instances == {"s1", "s2"}

\* "a", "b", "a.b"
PathStrs == {<<"a">>, <<"b">>, <<"a", ".", "b">>}

SetValues == {P("1"), P("2")}

DefaultsChoices == {EmptyDoc, [a |-> [b |-> P("2")], b |-> P("1")]}

DocInputs == {[a |-> P("2")], [a |-> [b |-> P("1")], b |-> P("2")]}

\* {a: {b: false, c: "1"}, b: "2"}: a falsy leaf beside a sibling
SiblingDoc == [a |-> [b |-> False, c |-> P("1")], b |-> P("2")]

ExternalFiles == {NoFile, Garbage} \cup {Stringify(d) : d \in DocInputs \cup {SiblingDoc}}

\* callbacks that return normally and touch nothing
Callbacks == {"f", "g"}

\* a callback that throws when it is invoked
Throwing == {"t"}

\* a callback that calls the cancel handle of its own subscription when it is
\* invoked: const off = store.onDidChange(key, () => { off(); })
Cancelling == {"u"}

\* a callback that writes back while it is notified:
\* store.onDidChange(key, v => { if (v === '1') store.set(key, '2'); })
Reentrant == {"r"}

NoKey == <<>>

\* the keys watched with onDidChange: "a", "a.b"
WatchKeys == {<<"a">>, <<"a", ".", "b">>}

\* what a cancel handle closes over: the registry, the key and the callback
HandleClasses ==
    [reg : {"any"}, key : {NoKey}, cb : Callbacks \cup Throwing \cup Cancelling]
    \cup [reg : {"key"}, key : WatchKeys,
          cb : Callbacks \cup Throwing \cup Cancelling \cup Reentrant]

(***************************************************************************)
(* The record of the last step: which operation ran, its arguments, what   *)
(* it returned, whether a write it attempted failed, the file before it,   *)
(* and the callbacks it invoked, in order.                                 *)
(***************************************************************************)
Step(op, i, key, arg, ret, outcome, wfail, pre, notes) ==
    [op |-> op, inst |-> i, key |-> key, arg |-> arg, ret |-> ret,
     outcome |-> outcome, wfail |-> wfail, pre |-> pre, notes |-> notes]

(***************************************************************************)
(* SimpleStore: the `store` accessors.                                     *)
(***************************************************************************)
\* get store(): the object returned (and stored in _store), and the file after
StoreGetter(file, dflts, ok) ==
    IF Readable(file)
    THEN [store |-> Parse(file), file |-> file, wfail |-> FALSE]
    ELSE [store |-> dflts,
          file  |-> atomicWriteFileSync(file, Stringify(dflts), ok),
          wfail |-> ~ok]

\* set store(value): _store and the file after; a failed write is swallowed
StoreSetter(file, store, value, ok) ==
    IF ok
    THEN [store |-> value, file |-> atomicWriteFileSync(file, Stringify(value), TRUE)]
    ELSE [store |-> store, file |-> atomicWriteFileSync(file, Stringify(value), FALSE)]

(***************************************************************************)
(* SimpleStore._handlePossibleChange: the callbacks invoked, in order.     *)
(***************************************************************************)
\* one invocation callback(newValue, oldValue)
Note(reg, key, cb, new, old) == [reg |-> reg, key |-> key, cb |-> cb, new |-> new, old |-> old]

FreshStore(store, file) ==
    IF Readable(file) THEN Assign(store, Parse(file)) ELSE store

\* the index of key's entry in the Map, 0 when it has none
EntryOf(entries, key) ==
    IF \E n \in 1..Len(entries) : entries[n].key = key
    THEN CHOOSE n \in 1..Len(entries) : entries[n].key = key
    ELSE 0

\* index = listeners.indexOf(callback); if (index !== -1) listeners.splice(index, 1)
RemoveFirst(ls, cb) ==
    IF \E n \in 1..Len(ls) : ls[n] = cb
    THEN LET index == CHOOSE n \in 1..Len(ls) : ls[n] = cb /\ \A m \in 1..(n - 1) : ls[m] # cb
         IN  SubSeq(ls, 1, index - 1) \o SubSeq(ls, index + 1, Len(ls))
    ELSE ls

\* entries without the n-th: onDidChangeListeners.delete(key)
WithoutEntry(entries, n) == SubSeq(entries, 1, n - 1) \o SubSeq(entries, n + 1, Len(entries))

\* the Map after the cancel handle returned by onDidChange(key, callback) ran
Unsubscribed(entries, key, callback) ==
    LET n == EntryOf(entries, key)
    IN  IF n = 0 THEN entries
        ELSE LET listeners == RemoveFirst(entries[n].cbs, callback)
             IN  IF listeners = <<>> THEN WithoutEntry(entries, n)
                 ELSE [entries EXCEPT ![n].cbs = listeners]

RECURSIVE RunList(_, _, _, _, _, _, _)
\* for (const listener of listeners) listener(new, old): the array iterator is
\* at position idx of the live array ls; a listener that throws ends the loop,
\* one that cancels itself splices the array under the iterator
RunList(ls, idx, reg, key, new, old, notes) ==
    IF idx > Len(ls) THEN [cbs |-> ls, notes |-> notes, threw |-> FALSE]
    ELSE LET listener == ls[idx]
             invoked  == Append(notes, Note(reg, key, listener, new, old))
         IN  IF listener \in Throwing
             THEN [cbs |-> ls, notes |-> invoked, threw |-> TRUE]
             ELSE RunList(IF listener \in Cancelling THEN RemoveFirst(ls, listener) ELSE ls,
                          idx + 1, reg, key, new, old, invoked)

RECURSIVE RunKeys(_, _, _, _, _)
\* for (const [key, listeners] of this.onDidChangeListeners.entries()): the Map
\* iterator is at entry n; an entry whose array became empty has been deleted
RunKeys(entries, n, oldStore, freshStore, notes) ==
    IF n > Len(entries) THEN [keyed |-> entries, notes |-> notes, threw |-> FALSE]
    ELSE LET key      == entries[n].key
             oldValue == getProperty(oldStore, key, Undefined)
             newValue == getProperty(freshStore, key, Undefined)
         IN  IF isDeepStrictEqual(oldValue, newValue)
             THEN RunKeys(entries, n + 1, oldStore, freshStore, notes)
             ELSE LET r     == RunList(entries[n].cbs, 1, "key", key, newValue, oldValue, notes)
                      empty == r.cbs = <<>>
                      after == IF empty THEN WithoutEntry(entries, n)
                               ELSE [entries EXCEPT ![n].cbs = r.cbs]
                  IN  IF r.threw THEN [keyed |-> after, notes |-> r.notes, threw |-> TRUE]
                      ELSE RunKeys(after, IF empty THEN n ELSE n + 1,
                                   oldStore, freshStore, r.notes)

\* the cancel handles after a dispatch: a cancelling callback that was invoked
\* has called the handle of its subscription
HandlesCalled(h, notes) ==
    [c \in HandleClasses |->
        IF c.cb \in Cancelling /\ h[c].called = 0
           /\ \E n \in 1..Len(notes) :
                 notes[n].reg = c.reg /\ notes[n].key = c.key /\ notes[n].cb = c.cb
        THEN [h[c] EXCEPT !.called = 1]
        ELSE h[c]]

\* the callbacks invoked in order, whether one of them threw (the exception
\* leaves _handlePossibleChange and the mutating call), and the registries after
handlePossibleChange(i, oldStore, store, file) ==
    LET freshStore == FreshStore(store, file)
        any        == IF ~isDeepStrictEqual(oldStore, freshStore)
                      THEN RunList(anyListeners[i], 1, "any", NoKey, freshStore, oldStore, <<>>)
                      ELSE [cbs |-> anyListeners[i], notes |-> <<>>, threw |-> FALSE]
        keyed      == IF any.threw
                      THEN [keyed |-> keyListeners[i], notes |-> any.notes, threw |-> TRUE]
                      ELSE RunKeys(keyListeners[i], 1, oldStore, freshStore, any.notes)
    IN  [notes   |-> keyed.notes,
         threw   |-> keyed.threw,
         any     |-> any.cbs,
         keyed   |-> keyed.keyed,
         handles |-> HandlesCalled(handles[i], keyed.notes)]

\* a call that notified nobody
NoDispatch(i) ==
    [notes |-> <<>>, threw |-> FALSE, any |-> anyListeners[i],
     keyed |-> keyListeners[i], handles |-> handles[i]]

\* the registries of instance i after a dispatch, and how the call ended
Dispatched(i, d) ==
    /\ anyListeners' = [anyListeners EXCEPT ![i] = d.any]
    /\ keyListeners' = [keyListeners EXCEPT ![i] = d.keyed]
    /\ handles' = [handles EXCEPT ![i] = d.handles]

Outcome(d) == IF d.threw THEN "threw" ELSE "returned"

(***************************************************************************)
(* The state before any store is constructed: no file, no instance.        *)
(***************************************************************************)
\* the main process before initRenderer(): isInitialized = false and no listener
NoBridge ==
    [isInitialized |-> FALSE, listeners |-> 0, ipcMain |-> TRUE, app |-> TRUE,
     appData |-> [defaultCwd |-> [abs |-> TRUE, segs |-> <<>>], appVersion |-> ""]]

\* this.path and options.projectVersion before the constructor has set them
NoFields ==
    [i \in Instances |-> [path |-> [abs |-> FALSE, segs |-> <<>>], projectVersion |-> ""]]

\* no generator of [Symbol.iterator]() has been started
NoIter ==
    [i \in Instances |-> [phase |-> "none", file |-> NoFile, storeData |-> EmptyDoc,
                          todo |-> {}, yielded |-> <<>>]]

\* atomicWriteFileSync is not running
IdleWriter ==
    [pc |-> "idle", data |-> NoFile, prev |-> NoFile, temp |-> NoFile,
     failed |-> FALSE, unlinked |-> FALSE]

\* no constructor is between its read of the file and its write
NoPending ==
    [i \in Instances |-> [phase |-> "none", dflts |-> EmptyDoc,
                          store |-> EmptyDoc, writes |-> FALSE]]

Init ==
    /\ disk = NoFile
    /\ cache = [i \in Instances |-> EmptyDoc]
    /\ defaults = [i \in Instances |-> EmptyDoc]
    /\ constructed = [i \in Instances |-> FALSE]
    /\ keyListeners = [i \in Instances |-> <<>>]
    /\ anyListeners = [i \in Instances |-> <<>>]
    /\ handles = [i \in Instances |-> [c \in HandleClasses |-> [issued |-> 0, called |-> 0]]]
    /\ timers = [i \in Instances |-> 0]
    /\ pending = NoPending
    /\ writer = IdleWriter
    /\ bridge = NoBridge
    /\ fields = NoFields
    /\ iter = NoIter
    /\ last = Step("init", "s1", NoKey, Undefined, Undefined, "returned", FALSE, NoFile, <<>>)

(***************************************************************************)
(* node:path on the paths the constructor handles.  A path is a record of  *)
(* its segments and of whether it starts at the root.                      *)
(***************************************************************************)
\* an absolute path
Dir(segs) == [abs |-> TRUE, segs |-> segs]

\* a relative path
Rel(segs) == [abs |-> FALSE, segs |-> segs]

\* the directory names and the process's working directory
UserData == Dir(<<"userData">>)
HomeDir == Dir(<<"home">>)
GlobalUserData == Dir(<<"globalThis">>)
ProcessCwd == Dir(<<"work">>)

RECURSIVE Normalize(_, _, _)
\* path.normalize: "." is dropped, ".." removes the segment before it
Normalize(segs, out, abs) ==
    IF segs = <<>> THEN out
    ELSE IF Head(segs) = "." THEN Normalize(Tail(segs), out, abs)
    ELSE IF Head(segs) = ".."
         THEN IF out # <<>> /\ out[Len(out)] # ".."
              THEN Normalize(Tail(segs), SubSeq(out, 1, Len(out) - 1), abs)
              ELSE IF abs THEN Normalize(Tail(segs), out, abs)
                   ELSE Normalize(Tail(segs), Append(out, ".."), abs)
    ELSE Normalize(Tail(segs), Append(out, Head(segs)), abs)

\* path.isAbsolute(p)
isAbsolute(p) == p.abs

\* path.join(a, b)
join(a, b) == [abs |-> a.abs, segs |-> Normalize(a.segs \o b.segs, <<>>, a.abs)]

\* path.resolve(a, b)
resolve(a, b) ==
    IF isAbsolute(b) THEN [abs |-> TRUE, segs |-> Normalize(b.segs, <<>>, TRUE)]
    ELSE IF isAbsolute(a) THEN join(a, b)
    ELSE join(ProcessCwd, join(a, b))

(***************************************************************************)
(* The bridge of the main process: initRenderer() and cleanupMain().       *)
(* bridge.listeners counts the listeners of ipcMain on the channel         *)
(* 'simple-store-get-data'; bridge.ipcMain and bridge.app tell whether the *)
(* process has Electron's ipcMain and app.                                 *)
(***************************************************************************)
\* app.getVersion ? app.getVersion() : '1.0.0'
AppVersion == "1.0.0"

\* the messages of the errors thrown
MsgNotMain ==
    "SimpleStore: Cannot initialize renderer support. This method must be called from the main process."
MsgNoIpcRenderer ==
    "SimpleStore: electron.ipcRenderer is not available. Make sure you are running in an Electron environment."
MsgNoAppData ==
    "SimpleStore: Could not get app data from main process. Make sure to call SimpleStore.initRenderer() in the main process before using SimpleStore in a renderer process."
MsgSendSync == "Could not get app data from main process"

\* the messages that contain the text "initRenderer"
NamesInitRenderer == {MsgNoAppData}

\* a registration at every call
RegistersAlways(isInitialized) == TRUE

\* initRenderer registers a listener only while isInitialized is false
Registers(isInitialized) == ~isInitialized

InitRenderer ==
    LET available == bridge.ipcMain /\ bridge.app
        appData   == [defaultCwd |-> UserData, appVersion |-> AppVersion]
        registers == available /\ Registers(bridge.isInitialized)
    IN  /\ bridge' = IF registers
                     THEN [bridge EXCEPT !.listeners = @ + 1, !.isInitialized = TRUE,
                                         !.appData = appData]
                     ELSE bridge
        /\ last' = Step("initRenderer", "s1", NoKey, Undefined,
                        IF available THEN appData ELSE MsgNotMain,
                        IF available THEN "returned" ELSE "threw",
                        FALSE, disk, <<>>)
        /\ UNCHANGED <<iter, fields, pending, writer, disk, cache, defaults, constructed,
                       keyListeners, anyListeners, handles, timers>>

CleanupMain ==
    /\ bridge' = IF bridge.ipcMain
                 THEN [bridge EXCEPT !.listeners = 0, !.isInitialized = FALSE]
                 ELSE bridge
    /\ last' = Step("cleanupMain", "s1", NoKey, Undefined, Undefined, "returned",
                    FALSE, disk, <<>>)
    /\ UNCHANGED <<iter, fields, pending, writer, disk, cache, defaults, constructed,
                   keyListeners, anyListeners, handles, timers>>

(***************************************************************************)
(* new SimpleStore({name, cwd, projectVersion}) in the main role or the    *)
(* renderer role: the resolution of this.path, then initializeStore.  An   *)
(* absent option and the empty string are the same to the constructor      *)
(* (`options.name || 'config'`, `if (options.cwd)`), and both are written  *)
(* "" here (Rel(<<>>) for cwd).  env describes the process the constructor *)
(* runs in: whether it has an ipcRenderer, whether globalThis.electron.app *)
(* has getPath, and what sendSync does when no listener answers.           *)
(***************************************************************************)
\* const projectName = this.options.name || 'config'
ProjectName(name) == IF name = "" THEN "config" ELSE name

\* ipcRenderer.sendSync('simple-store-get-data')
SendSync(env) ==
    IF bridge.listeners > 0 THEN [kind |-> "payload", appData |-> bridge.appData]
    ELSE [kind |-> env.noReply, appData |-> bridge.appData]

\* baseDir and appVersion, or the error thrown
BaseDir(renderer, projectName, env) ==
    IF renderer
    THEN IF ~env.ipcRenderer
         THEN [threw |-> TRUE, message |-> MsgNoIpcRenderer, baseDir |-> UserData, appVersion |-> ""]
         ELSE LET reply == SendSync(env)
              IN  IF reply.kind = "payload"
                  THEN [threw |-> FALSE, message |-> "", baseDir |-> reply.appData.defaultCwd,
                        appVersion |-> reply.appData.appVersion]
                  ELSE IF env.globalApp
                  THEN [threw |-> FALSE, message |-> "", baseDir |-> GlobalUserData,
                        appVersion |-> AppVersion]
                  ELSE [threw |-> TRUE,
                        message |-> IF reply.kind = "undefined" THEN MsgNoAppData ELSE MsgSendSync,
                        baseDir |-> UserData, appVersion |-> ""]
    ELSE [threw |-> FALSE, message |-> "",
          baseDir |-> IF bridge.app THEN UserData
                      ELSE join(HomeDir, Rel(<<"." \o projectName>>)),
          appVersion |-> ""]

\* this.path
StorePath(baseDir, cwd, projectName) ==
    LET dir == IF cwd = Rel(<<>>) THEN baseDir
               ELSE IF isAbsolute(cwd) THEN cwd ELSE join(baseDir, cwd)
    IN  resolve(dir, Rel(<<projectName \o ".json">>))

\* the process of a constructor in the main role: none of env is consulted
MainEnv == [ipcRenderer |-> FALSE, globalApp |-> FALSE, noReply |-> "undefined"]

\* this.path and options.projectVersion of new SimpleStore({defaults}) in the
\* main role
MainFields ==
    [path |-> StorePath(BaseDir(FALSE, ProjectName(""), MainEnv).baseDir, Rel(<<>>),
                        ProjectName("")),
     projectVersion |-> ""]

(***************************************************************************)
(* new SimpleStore({defaults: dflts}) in the main role: initializeStore.   *)
(***************************************************************************)
\* a merge in which the defaults win over the file's fields
MergedDataDefaultsWin(file, dflts) ==
    Assign(IF Readable(file) THEN Parse(file) ELSE EmptyDoc, Clone(dflts))

\* the Document initializeStore builds: the defaults overlaid by the file's fields
MergedData(file, dflts) ==
    Assign(Clone(dflts), IF Readable(file) THEN Parse(file) ELSE EmptyDoc)

Construct(i, dflts, ok) ==
    LET fileExists == disk.kind # "none"
        diskData   == IF Readable(disk) THEN Parse(disk) ELSE EmptyDoc
        hasDflts   == DOMAIN dflts # {}
        writes     == hasDflts \/ ~fileExists
        store      == IF hasDflts THEN MergedData(disk, dflts) ELSE diskData
    IN  /\ ~constructed[i]
        /\ constructed' = [constructed EXCEPT ![i] = TRUE]
        /\ defaults' = [defaults EXCEPT ![i] = dflts]
        /\ cache' = [cache EXCEPT ![i] = store]
        /\ disk' = IF writes THEN atomicWriteFileSync(disk, Stringify(store), ok) ELSE disk
        /\ fields' = [fields EXCEPT ![i] = MainFields]
        /\ last' = Step("new", i, NoKey, dflts, Undefined, "returned", writes /\ ~ok, disk, <<>>)
        /\ UNCHANGED <<iter, bridge, writer, pending, keyListeners, anyListeners, handles, timers>>

New(i, renderer, options, env) ==
    LET projectName == ProjectName(options.name)
        b           == BaseDir(renderer, projectName, env)
        fileExists  == disk.kind # "none"
        diskData    == IF Readable(disk) THEN Parse(disk) ELSE EmptyDoc
    IN  /\ ~constructed[i]
        /\ pending[i].phase = "none"
        /\ IF b.threw
           THEN /\ last' = Step("construct", i, NoKey,
                                [renderer |-> renderer, options |-> options, env |-> env],
                                b.message, "threw", FALSE, disk, <<>>)
                /\ UNCHANGED <<iter, fields, disk, cache, defaults, constructed>>
           ELSE /\ fields' = [fields EXCEPT ![i] =
                                [path |-> StorePath(b.baseDir, options.cwd, projectName),
                                 projectVersion |-> IF options.projectVersion = ""
                                                    THEN b.appVersion
                                                    ELSE options.projectVersion]]
                /\ constructed' = [constructed EXCEPT ![i] = TRUE]
                /\ cache' = [cache EXCEPT ![i] = diskData]
                /\ disk' = IF fileExists THEN disk
                           ELSE atomicWriteFileSync(disk, Stringify(EmptyDoc), TRUE)
                /\ last' = Step("construct", i, NoKey,
                                [renderer |-> renderer, options |-> options, env |-> env],
                                Undefined, "returned", FALSE, disk, <<>>)
                /\ UNCHANGED defaults
        /\ UNCHANGED <<iter, bridge, pending, writer, keyListeners, anyListeners, handles, timers>>

(***************************************************************************)
(* The same constructor run by an instance in a process of its own (the    *)
(* main process and a renderer, say): the file system is shared, so the    *)
(* calls of other processes fall between initializeStore's read of the     *)
(* file and its write.  InitializeRead is initializeStore up to the merge, *)
(* InitializeWrite is its write and the assignment of _store.              *)
(***************************************************************************)
InitializeRead(i, dflts) ==
    LET fileExists == disk.kind # "none"
        diskData   == IF Readable(disk) THEN Parse(disk) ELSE EmptyDoc
        hasDflts   == DOMAIN dflts # {}
    IN  /\ ~constructed[i]
        /\ pending[i].phase = "none"
        /\ pending' = [pending EXCEPT ![i] =
                          [phase  |-> "read",
                           dflts  |-> dflts,
                           store  |-> IF hasDflts THEN MergedData(disk, dflts) ELSE diskData,
                           writes |-> hasDflts \/ ~fileExists]]
        /\ fields' = [fields EXCEPT ![i] = MainFields]
        /\ last' = Step("read", i, NoKey, dflts, Undefined, "returned", FALSE, disk, <<>>)
        /\ UNCHANGED <<iter, bridge, writer, disk, cache, defaults, constructed, keyListeners, anyListeners,
                       handles, timers>>

InitializeWrite(i, ok) ==
    LET p == pending[i]
    IN  /\ p.phase = "read"
        /\ constructed' = [constructed EXCEPT ![i] = TRUE]
        /\ defaults' = [defaults EXCEPT ![i] = p.dflts]
        /\ cache' = [cache EXCEPT ![i] = p.store]
        /\ disk' = IF p.writes THEN atomicWriteFileSync(disk, Stringify(p.store), ok) ELSE disk
        /\ pending' = [pending EXCEPT ![i].phase = "done"]
        /\ last' = Step("new", i, NoKey, p.dflts, Undefined, "returned", p.writes /\ ~ok, disk, <<>>)
        /\ UNCHANGED <<iter, fields, bridge, writer, keyListeners, anyListeners, handles, timers>>

(***************************************************************************)
(* get(key, defaultValue)                                                  *)
(***************************************************************************)
\* the cache answers: it is not empty and holds a value at key
CacheHit(store, key) ==
    /\ DOMAIN store # {}
    /\ getProperty(store, key, Undefined) # Undefined

\* a get that ignores the caller's default value
GetResultNoDefault(store, file, key, defaultValue) ==
    IF CacheHit(store, key) THEN getProperty(store, key, Undefined)
    ELSE IF Readable(file) THEN getProperty(Parse(file), key, Undefined)
    ELSE Undefined

\* get(key) throws: getProperty's TypeError for a key that is not a string
\* leaves get only from the cache lookup, which a non-empty cache reaches; in
\* the disk branch it is thrown inside the try block and caught
GetThrows(store, key) == ~IsString(key) /\ DOMAIN store # {}

\* what get(key, defaultValue) returns
GetResult(store, file, key, defaultValue) ==
    IF ~IsString(key) THEN defaultValue
    ELSE IF CacheHit(store, key) THEN getProperty(store, key, Undefined)
    ELSE IF Readable(file) THEN getProperty(Parse(file), key, defaultValue)
    ELSE defaultValue

\* _store after get(key)
GetStore(store, file, key) ==
    IF GetThrows(store, key) THEN store
    ELSE IF IsString(key) /\ CacheHit(store, key) THEN store
    ELSE IF Readable(file) THEN Parse(file)
    ELSE store

Get(i, key, defaultValue) ==
    /\ constructed[i]
    /\ cache' = [cache EXCEPT ![i] = GetStore(cache[i], disk, key)]
    /\ last' = Step("get", i, key, defaultValue,
                    IF GetThrows(cache[i], key) THEN Undefined
                    ELSE GetResult(cache[i], disk, key, defaultValue),
                    IF GetThrows(cache[i], key) THEN "threw" ELSE "returned",
                    FALSE, disk, <<>>)
    /\ UNCHANGED <<iter, fields, bridge, writer, pending, disk, defaults, constructed, keyListeners, anyListeners, handles, timers>>

(***************************************************************************)
(* has(key), and reading the `store` property (also what iteration does)   *)
(***************************************************************************)
Has(i, key, ok) ==
    LET g == StoreGetter(disk, defaults[i], ok)
    IN  /\ constructed[i]
        /\ cache' = [cache EXCEPT ![i] = g.store]
        /\ disk' = g.file
        /\ last' = Step("has", i, key, Undefined,
                        IF ~IsString(key) THEN Undefined
                        ELSE IF hasProperty(g.store, key) THEN True ELSE False,
                        IF IsString(key) THEN "returned" ELSE "threw",
                        g.wfail, disk, <<>>)
        /\ UNCHANGED <<iter, fields, bridge, writer, pending, defaults, constructed, keyListeners, anyListeners, handles, timers>>

StoreRead(i, ok) ==
    LET g == StoreGetter(disk, defaults[i], ok)
    IN  /\ constructed[i]
        /\ cache' = [cache EXCEPT ![i] = g.store]
        /\ disk' = g.file
        /\ last' = Step("store", i, NoKey, Undefined, g.store, "returned", g.wfail, disk, <<>>)
        /\ UNCHANGED <<iter, fields, bridge, writer, pending, defaults, constructed, keyListeners, anyListeners, handles, timers>>

(***************************************************************************)
(* for (const [key, value] of store): one call of next() on the generator  *)
(* of [Symbol.iterator]().  The first call reads `store` and keeps the     *)
(* object in storeData; every call yields the pair of one key not yet      *)
(* visited, or finishes.  Other calls on the store run between two calls   *)
(* of next().  iter[i].file is the file as the first call found it and     *)
(* iter[i].yielded the pairs yielded so far.                               *)
(***************************************************************************)
\* a pair made of the key alone
PairOfKey(storeData, key) == <<key, P(key)>>

\* yield [key, storeData[key]]
Pair(storeData, key) == <<key, storeData[key]>>

\* the generator's state after it ran from `storeData` with the keys `todo` left
\* up to its next yield or its end
Advanced(it, storeData, todo, file) ==
    IF todo = {}
    THEN [it EXCEPT !.phase = "done", !.file = file, !.storeData = storeData, !.todo = {}]
    ELSE LET key == CHOOSE k \in todo : TRUE
         IN  [phase |-> "running", file |-> file, storeData |-> storeData,
              todo |-> todo \ {key},
              yielded |-> Append(it.yielded, Pair(storeData, key))]

IterNext(i, ok) ==
    LET it    == iter[i]
        first == it.phase # "running"
        g     == StoreGetter(disk, defaults[i], ok)
        next  == IF first
                 THEN Advanced([it EXCEPT !.yielded = <<>>], g.store, DOMAIN g.store, disk)
                 ELSE Advanced(it, it.storeData, it.todo, it.file)
    IN  /\ constructed[i]
        /\ first \/ ok
        /\ iter' = [iter EXCEPT ![i] = next]
        /\ cache' = IF first THEN [cache EXCEPT ![i] = g.store] ELSE cache
        /\ disk' = IF first THEN g.file ELSE disk
        /\ last' = Step("next", i, NoKey, Undefined,
                        IF next.phase = "done" THEN Undefined
                        ELSE next.yielded[Len(next.yielded)][2],
                        "returned", first /\ g.wfail, disk, <<>>)
        /\ UNCHANGED <<fields, bridge, writer, pending, defaults, constructed, keyListeners,
                       anyListeners, handles, timers>>

(***************************************************************************)
(* openInEditor(): shell.openPath(this.path) and the promise's outcome.    *)
(* The string openPath resolves with is a sequence of characters; `shell`  *)
(* tells where a shell was found: on globalThis.electron, in the electron  *)
(* module, or nowhere.                                                     *)
(***************************************************************************)
\* a report taken as it is
NotTrimmed(cs) == cs

RECURSIVE TrimStart(_)
TrimStart(cs) == IF cs # <<>> /\ Head(cs) = " " THEN TrimStart(Tail(cs)) ELSE cs

RECURSIVE TrimEnd(_)
TrimEnd(cs) ==
    IF cs # <<>> /\ cs[Len(cs)] = " " THEN TrimEnd(SubSeq(cs, 1, Len(cs) - 1)) ELSE cs

\* result.trim()
Trim(cs) == TrimEnd(TrimStart(cs))

\* the messages of the errors openInEditor rejects with, as sequences of parts
MsgNoShell ==
    <<"Error opening file in editor: ",
      "Unable to access electron.shell. Make sure Electron is available.">>

MsgFailedToOpen(result) ==
    <<"Error opening file in editor: ", "Failed to open store file: ">> \o result

OpenInEditor(i, shell, result) ==
    LET fails == Len(Trim(result)) > 0
    IN  /\ constructed[i]
        /\ last' = Step("openInEditor", i, NoKey,
                        [shell  |-> shell,
                         opened |-> IF shell = "none" THEN NoFields[i].path ELSE fields[i].path,
                         result |-> result],
                        IF shell = "none" THEN MsgNoShell
                        ELSE IF fails THEN MsgFailedToOpen(result)
                        ELSE <<>>,
                        IF shell = "none" \/ fails THEN "rejected" ELSE "resolved",
                        FALSE, disk, <<>>)
        /\ UNCHANGED <<iter, fields, bridge, writer, pending, disk, cache, defaults, constructed,
                       keyListeners, anyListeners, handles, timers>>

(***************************************************************************)
(* store = value                                                           *)
(***************************************************************************)
StoreAssign(i, value, ok) ==
    LET s == StoreSetter(disk, cache[i], value, ok)
    IN  /\ constructed[i]
        /\ cache' = [cache EXCEPT ![i] = s.store]
        /\ disk' = s.file
        /\ last' = Step("store=", i, NoKey, value, Undefined, "returned", ~ok, disk, <<>>)
        /\ UNCHANGED <<iter, fields, bridge, writer, pending, defaults, constructed, keyListeners, anyListeners, handles, timers>>

(***************************************************************************)
(* set(key, value) and set(object)                                         *)
(***************************************************************************)
\* set(key, value) that builds the Document from the key alone
UpdatedAlone(latestStore, key, value) ==
    IF ~IsString(key) THEN latestStore
    ELSE IF Includes(key, ".")
    THEN setProperty(EmptyDoc, key, value)
    ELSE Put(EmptyDoc, Str(key), value)

\* the updated Document of set(key, value)
Updated(latestStore, key, value) ==
    IF ~IsString(key) THEN latestStore
    ELSE IF Includes(key, ".")
    THEN setProperty(latestStore, key, value)
    ELSE Put(latestStore, Str(key), value)

\* the write step of set: _store is assigned first, the write's error is swallowed
SetWrite(file, store, updated, ok) ==
    [store |-> updated, file |-> atomicWriteFileSync(file, Stringify(updated), ok)]

SetWith(op, i, key, arg, updated, g, ok2) ==
    LET oldStore == Clone(g.store)
        s        == SetWrite(g.file, g.store, updated, ok2)
        d        == handlePossibleChange(i, oldStore, s.store, s.file)
    IN  /\ constructed[i]
        /\ cache' = [cache EXCEPT ![i] = s.store]
        /\ disk' = s.file
        /\ Dispatched(i, d)
        /\ last' = Step(op, i, key, arg, Undefined, Outcome(d), g.wfail \/ ~ok2, disk, d.notes)
        /\ UNCHANGED <<iter, fields, bridge, writer, pending, defaults, constructed, timers>>

Set(i, key, value, ok1, ok2) ==
    LET g == StoreGetter(disk, defaults[i], ok1)
    IN  SetWith("set", i, key, value, Updated(g.store, key, value), g, ok2)

SetObject(i, object, ok1, ok2) ==
    LET g == StoreGetter(disk, defaults[i], ok1)
    IN  SetWith("setObject", i, NoKey, object, Assign(g.store, object), g, ok2)

(***************************************************************************)
(* delete(key)                                                             *)
(***************************************************************************)
Delete(i, key, ok1, ok2) ==
    LET g             == StoreGetter(disk, defaults[i], ok1)
        storeInstance == Clone(g.store)
        oldStore      == Clone(storeInstance)
        present       == IsString(key) /\ hasProperty(storeInstance, key)
        newStore      == deleteProperty(storeInstance, key)[1]
        s             == IF present THEN StoreSetter(g.file, g.store, newStore, ok2)
                         ELSE [store |-> g.store, file |-> g.file]
        d             == IF present THEN handlePossibleChange(i, oldStore, s.store, s.file)
                         ELSE NoDispatch(i)
    IN  /\ constructed[i]
        /\ cache' = [cache EXCEPT ![i] = s.store]
        /\ disk' = s.file
        /\ Dispatched(i, d)
        /\ last' = Step("delete", i, key, Undefined,
                        IF d.threw \/ ~IsString(key) THEN Undefined
                        ELSE IF present THEN True ELSE False,
                        IF IsString(key) THEN Outcome(d) ELSE "threw",
                        g.wfail \/ (present /\ ~ok2), disk, d.notes)
        /\ UNCHANGED <<iter, fields, bridge, writer, pending, defaults, constructed, timers>>

(***************************************************************************)
(* clear(), and the callback it hands to setTimeout(..., 0)                *)
(***************************************************************************)
Clear(i, ok1, ok2) ==
    LET g        == StoreGetter(disk, defaults[i], ok1)
        oldStore == Clone(g.store)
        s        == StoreSetter(g.file, g.store, EmptyDoc, ok2)
        d        == handlePossibleChange(i, oldStore, s.store, s.file)
    IN  /\ constructed[i]
        /\ timers[i] < MaxTimers
        /\ cache' = [cache EXCEPT ![i] = s.store]
        /\ disk' = s.file
        /\ timers' = [timers EXCEPT ![i] = @ + 1]
        /\ Dispatched(i, d)
        /\ last' = Step("clear", i, NoKey, Undefined, Undefined, Outcome(d),
                        g.wfail \/ ~ok2, disk, d.notes)
        /\ UNCHANGED <<iter, fields, bridge, writer, pending, defaults, constructed>>

\* the file after the deferred re-verification of clear()
Reverified(file, ok1, ok2) ==
    IF file.kind = "none" THEN file
    ELSE IF Readable(file)
         THEN IF DOMAIN Parse(file) # {}
              THEN atomicWriteFileSync(
                       atomicWriteFileSync(file, Stringify(EmptyDoc), ok1),
                       Stringify(EmptyDoc), ok1 \/ ok2)
              ELSE file
         ELSE atomicWriteFileSync(file, Stringify(EmptyDoc), ok1)

\* whether the re-verification attempts a write
Reverifies(file) ==
    /\ file.kind # "none"
    /\ Readable(file) => DOMAIN Parse(file) # {}

ClearTimer(i, ok1, ok2) ==
    /\ timers[i] > 0
    /\ timers' = [timers EXCEPT ![i] = @ - 1]
    /\ disk' = Reverified(disk, ok1, ok2)
    /\ last' = Step("timer", i, NoKey, Undefined, Undefined, "returned",
                    Reverifies(disk) /\ ~ok1, disk, <<>>)
    /\ UNCHANGED <<iter, fields, bridge, writer, pending, cache, defaults, constructed, keyListeners, anyListeners, handles>>

(***************************************************************************)
(* onDidChange(key, callback), onDidAnyChange(callback)                    *)
(***************************************************************************)
\* onDidChangeListeners after onDidChange(key, callback)
Subscribed(entries, key, callback) ==
    LET n == EntryOf(entries, key)
    IN  IF n = 0 THEN Append(entries, [key |-> key, cbs |-> <<callback>>])
        ELSE [entries EXCEPT ![n].cbs = Append(@, callback)]

RECURSIVE Issued(_, _)
\* the number of cancel handles handed out for the classes cs
Issued(h, cs) ==
    IF cs = {} THEN 0
    ELSE LET c == CHOOSE x \in cs : TRUE
         IN  h[c].issued + Issued(h, cs \ {c})

\* the number of subscriptions made on instance i so far
Registrations(i) == Issued(handles[i], HandleClasses)

\* the handle of one more subscription is handed out
Handed(i, reg, key, callback) ==
    [handles EXCEPT ![i][[reg |-> reg, key |-> key, cb |-> callback]].issued = @ + 1]

OnDidChange(i, key, callback) ==
    /\ constructed[i]
    /\ Registrations(i) < MaxListeners
    /\ keyListeners' = [keyListeners EXCEPT ![i] = Subscribed(@, key, callback)]
    /\ handles' = Handed(i, "key", key, callback)
    /\ last' = Step("onDidChange", i, NoKey, Undefined, Undefined, "returned", FALSE, disk, <<>>)
    /\ UNCHANGED <<iter, fields, bridge, writer, pending, disk, cache, defaults, constructed, anyListeners, timers>>

OnDidAnyChange(i, callback) ==
    /\ constructed[i]
    /\ Registrations(i) < MaxListeners
    /\ anyListeners' = [anyListeners EXCEPT ![i] = Append(@, callback)]
    /\ handles' = Handed(i, "any", NoKey, callback)
    /\ last' = Step("onDidAnyChange", i, NoKey, Undefined, Undefined, "returned", FALSE, disk, <<>>)
    /\ UNCHANGED <<iter, fields, bridge, writer, pending, disk, cache, defaults, constructed, keyListeners, timers>>

(***************************************************************************)
(* Calling the cancel handle a subscription returned.  c is what the       *)
(* handle closes over; again says that this very handle was called before. *)
(***************************************************************************)
Unsubscribe(i, c, again) ==
    /\ constructed[i]
    /\ IF again THEN handles[i][c].called > 0
                ELSE handles[i][c].called < handles[i][c].issued
    /\ handles' = IF again THEN handles
                  ELSE [handles EXCEPT ![i][c].called = @ + 1]
    /\ keyListeners' = IF c.reg = "key"
                       THEN [keyListeners EXCEPT ![i] = Unsubscribed(@, c.key, c.cb)]
                       ELSE keyListeners
    /\ anyListeners' = IF c.reg = "any"
                       THEN [anyListeners EXCEPT ![i] = RemoveFirst(@, c.cb)]
                       ELSE anyListeners
    /\ last' = Step("cancel", i, c.key,
                    [reg |-> P(c.reg), cb |-> P(c.cb), again |-> IF again THEN True ELSE False],
                    Undefined, "returned", FALSE, disk, <<>>)
    /\ UNCHANGED <<iter, fields, bridge, writer, pending, disk, cache, defaults, constructed, timers>>

(***************************************************************************)
(* Another writer of the file: a user editing it, another process.         *)
(***************************************************************************)
ExternalWrite(file) ==
    /\ disk' = file
    /\ last' = Step("external", "s1", NoKey, Undefined, Undefined, "returned", FALSE, file, <<>>)
    /\ UNCHANGED <<iter, fields, bridge, writer, pending, cache, defaults, constructed, keyListeners, anyListeners, handles, timers>>

(***************************************************************************)
(* The store of one process with one instance, any number of calls, failing*)
(* writes, the timers of clear() and another writer of the file.           *)
(***************************************************************************)
\* the outcomes of the write the `store` getter makes: it writes only when the
\* file cannot be read
Heal(file) == IF Readable(file) THEN {TRUE} ELSE BOOLEAN

Next ==
    \/ \E d \in DefaultsChoices, ok \in BOOLEAN : Construct("s1", d, ok)
    \/ \E key \in PathStrs : Get("s1", key, Undefined)
    \/ \E key \in PathStrs, ok \in Heal(disk) : Has("s1", key, ok)
    \/ \E ok \in Heal(disk) : StoreRead("s1", ok)
    \/ \E v \in DocInputs, ok \in BOOLEAN : StoreAssign("s1", v, ok)
    \/ \E key \in PathStrs, v \in SetValues, ok1 \in Heal(disk), ok2 \in BOOLEAN :
          Set("s1", key, v, ok1, ok2)
    \/ \E o \in DocInputs, ok1 \in Heal(disk), ok2 \in BOOLEAN : SetObject("s1", o, ok1, ok2)
    \/ \E key \in PathStrs, ok1 \in Heal(disk), ok2 \in BOOLEAN : Delete("s1", key, ok1, ok2)
    \/ \E ok1 \in Heal(disk), ok2 \in BOOLEAN : Clear("s1", ok1, ok2)
    \/ \E ok1, ok2 \in BOOLEAN : ClearTimer("s1", ok1, ok2)
    \/ \E f \in ExternalFiles : ExternalWrite(f)

Spec == Init /\ [][Next]_vars

(***************************************************************************)
(* The same store with change listeners: one instance without defaults,    *)
(* subscriptions, the mutating calls, failing writes and another writer.   *)
(***************************************************************************)
NotifyFiles == {Garbage, Stringify([a |-> P("2")])}

NextNotify ==
    \/ \E ok \in BOOLEAN : Construct("s1", EmptyDoc, ok)
    \/ \E key \in WatchKeys, cb \in Callbacks : OnDidChange("s1", key, cb)
    \/ \E cb \in Callbacks : OnDidAnyChange("s1", cb)
    \/ \E key \in WatchKeys, v \in SetValues, ok1 \in Heal(disk), ok2 \in BOOLEAN :
          Set("s1", key, v, ok1, ok2)
    \/ \E key \in WatchKeys, ok1 \in Heal(disk), ok2 \in BOOLEAN : Delete("s1", key, ok1, ok2)
    \/ \E ok1 \in Heal(disk), ok2 \in BOOLEAN : Clear("s1", ok1, ok2)
    \/ \E ok1, ok2 \in BOOLEAN : ClearTimer("s1", ok1, ok2)
    \/ \E f \in NotifyFiles : ExternalWrite(f)

SpecNotify == Init /\ [][NextNotify]_vars

(***************************************************************************)
(* Two instances of one process on the same path, every write succeeding   *)
(* and no other writer: the file always holds what the process wrote last. *)
(***************************************************************************)
NextTwo ==
    \/ \E i \in Instances : Construct(i, EmptyDoc, TRUE)
    \/ \E i \in Instances, key \in PathStrs : Get(i, key, Undefined)
    \/ \E i \in Instances, key \in PathStrs : Has(i, key, TRUE)
    \/ \E i \in Instances, key \in PathStrs, v \in SetValues : Set(i, key, v, TRUE, TRUE)
    \/ \E i \in Instances, key \in PathStrs : Delete(i, key, TRUE, TRUE)

SpecTwo == Init /\ [][NextTwo]_vars

(***************************************************************************)
(* Subscriptions and their cancel handles: one instance without defaults,  *)
(* every write succeeding, callbacks that return, throw, or cancel their   *)
(* own subscription while they run.                                        *)
(***************************************************************************)
DispatchCallbacks == {"f"} \cup Throwing \cup Cancelling

NextDispatch ==
    \/ Construct("s1", EmptyDoc, TRUE)
    \/ \E key \in WatchKeys, cb \in DispatchCallbacks : OnDidChange("s1", key, cb)
    \/ \E cb \in DispatchCallbacks : OnDidAnyChange("s1", cb)
    \/ \E c \in HandleClasses, again \in BOOLEAN : Unsubscribe("s1", c, again)
    \/ \E key \in WatchKeys, v \in SetValues : Set("s1", key, v, TRUE, TRUE)
    \/ \E key \in WatchKeys : Delete("s1", key, TRUE, TRUE)

SpecDispatch == Init /\ [][NextDispatch]_vars

(***************************************************************************)
(* A store constructed on a file that holds text which is not JSON, then   *)
(* read: one instance, with and without defaults, failing writes.          *)
(***************************************************************************)
\* the file was corrupted before the process started
InitCorrupt ==
    /\ disk = Garbage
    /\ cache = [i \in Instances |-> EmptyDoc]
    /\ defaults = [i \in Instances |-> EmptyDoc]
    /\ constructed = [i \in Instances |-> FALSE]
    /\ keyListeners = [i \in Instances |-> <<>>]
    /\ anyListeners = [i \in Instances |-> <<>>]
    /\ handles = [i \in Instances |-> [c \in HandleClasses |-> [issued |-> 0, called |-> 0]]]
    /\ timers = [i \in Instances |-> 0]
    /\ pending = NoPending
    /\ writer = IdleWriter
    /\ bridge = NoBridge
    /\ fields = NoFields
    /\ iter = NoIter
    /\ last = Step("init", "s1", NoKey, Undefined, Undefined, "returned", FALSE, Garbage, <<>>)

\* the defaultValue argument of get: none, or a value
GetDefaults == {Undefined, P("d"), [x |-> P("1")]}

\* "a", "b", "a.b", "b.a", "c"
CorruptKeys == PathStrs \cup {<<"b", ".", "a">>, <<"c">>}

\* options.defaults: none, nested ones, {c: "1"}
CorruptDefaults == DefaultsChoices \cup {[c |-> P("1")]}

NextCorrupt ==
    \/ \E d \in CorruptDefaults, ok \in BOOLEAN : Construct("s1", d, ok)
    \/ \E key \in CorruptKeys, dv \in GetDefaults : Get("s1", key, dv)
    \/ \E key \in CorruptKeys, ok \in Heal(disk) : Has("s1", key, ok)
    \/ \E ok \in Heal(disk) : StoreRead("s1", ok)

SpecCorrupt == InitCorrupt /\ [][NextCorrupt]_vars

(***************************************************************************)
(* The bridge and the constructor's path resolution: a main process with   *)
(* or without Electron's ipcMain and app, calls of initRenderer() and      *)
(* cleanupMain() in any order, and one store constructed in the main role  *)
(* or in the renderer role with any of the options and environments.       *)
(***************************************************************************)
\* the main process has ipcMain or not, app or not
InitBridge ==
    /\ disk = NoFile
    /\ cache = [i \in Instances |-> EmptyDoc]
    /\ defaults = [i \in Instances |-> EmptyDoc]
    /\ constructed = [i \in Instances |-> FALSE]
    /\ keyListeners = [i \in Instances |-> <<>>]
    /\ anyListeners = [i \in Instances |-> <<>>]
    /\ handles = [i \in Instances |-> [c \in HandleClasses |-> [issued |-> 0, called |-> 0]]]
    /\ timers = [i \in Instances |-> 0]
    /\ pending = NoPending
    /\ writer = IdleWriter
    /\ bridge \in {[NoBridge EXCEPT !.ipcMain = m, !.app = a] : m \in BOOLEAN, a \in BOOLEAN}
    /\ fields = NoFields
    /\ iter = NoIter
    /\ last = Step("init", "s1", NoKey, Undefined, Undefined, "returned", FALSE, NoFile, <<>>)

\* {name, cwd, projectVersion}: absent, or given; cwd relative or absolute
Options ==
    [name : {"", "settings"},
     cwd : {Rel(<<>>), Rel(<<"sub">>), Rel(<<"..", "other">>), Dir(<<"tmp", "dir">>)},
     projectVersion : {"", "2.0.0"}]

\* where openInEditor finds a shell
Shells == {"globalThis", "electron", "none"}

\* what shell.openPath resolves with: "", " ", "E", " E "
Reports == {<<>>, <<" ">>, <<"E">>, <<" ", "E", " ">>}

\* the processes a constructor runs in
Envs == [ipcRenderer : BOOLEAN, globalApp : BOOLEAN, noReply : {"undefined", "throws"}]

NextBridge ==
    \/ InitRenderer
    \/ CleanupMain
    \/ \E renderer \in BOOLEAN, options \in Options, env \in Envs :
          New("s1", renderer, options, env)
    \/ \E shell \in Shells, result \in Reports : OpenInEditor("s1", shell, result)

SpecBridge == InitBridge /\ [][NextBridge]_vars

(***************************************************************************)
(* Iteration over a store while it is read and written: one instance, with *)
(* or without defaults, set and delete between two steps of an iteration,  *)
(* another writer of the file, failing writes of the `store` getter.       *)
(***************************************************************************)
NextIter ==
    \/ \E d \in DefaultsChoices : Construct("s1", d, TRUE)
    \/ \E ok \in Heal(disk) : IterNext("s1", ok)
    \/ \E key \in PathStrs : Set("s1", key, P("1"), TRUE, TRUE)
    \/ \E key \in PathStrs : Delete("s1", key, TRUE, TRUE)
    \/ \E file \in {Garbage, Stringify(SiblingDoc)} : ExternalWrite(file)

SpecIter == Init /\ [][NextIter]_vars

(***************************************************************************)
(* set(key, value) on paths of one to three segments, with a primitive or  *)
(* an object as the value, on files written by another program or missing  *)
(* or unparsable; the writes of set and of the `store` getter may fail.    *)
(***************************************************************************)
\* "a", "b", "a.b", "a.b.c"
SetKeys == PathStrs \cup {<<"a", ".", "b", ".", "c">>}

\* "1", "2", {c: "2"}
SetArgs == SetValues \cup {[c |-> P("2")]}

NextSet ==
    \/ \E d \in DefaultsChoices : Construct("s1", d, TRUE)
    \/ \E file \in ExternalFiles : ExternalWrite(file)
    \/ \E key \in SetKeys, v \in SetArgs, ok1 \in Heal(disk), ok2 \in BOOLEAN :
          Set("s1", key, v, ok1, ok2)

SpecSet == Init /\ [][NextSet]_vars

(***************************************************************************)
(* Calls whose key argument is a string or is not one: one instance, with  *)
(* and without defaults, so that the cache is empty in some states and     *)
(* holds fields in others; every write succeeds, no listener.              *)
(***************************************************************************)
\* the key arguments: path strings, a number, null
AnyKeys == PathStrs \cup NonStringKeys

NextTypes ==
    \/ \E d \in DefaultsChoices : Construct("s1", d, TRUE)
    \/ \E key \in AnyKeys, dv \in GetDefaults : Get("s1", key, dv)
    \/ \E key \in AnyKeys : Has("s1", key, TRUE)
    \/ \E key \in AnyKeys, v \in SetValues : Set("s1", key, v, TRUE, TRUE)
    \/ \E key \in AnyKeys : Delete("s1", key, TRUE, TRUE)

SpecTypes == Init /\ [][NextTypes]_vars

(***************************************************************************)
(* atomicWriteFileSync(filePath, data) call by call: writeFileSync to the  *)
(* temporary sibling (the file appears, then its bytes), renameSync onto   *)
(* the target and, after a failure, unlinkSync of the sibling and the      *)
(* re-throw.  Each file-system call succeeds or fails.  Another process    *)
(* reads the target between any two of the calls.  The files are named     *)
(* "target" and "temp"; the random suffix makes the sibling's name new at  *)
(* every call, so `temp` is the file of the call in progress.              *)
(***************************************************************************)
\* the text of a file that holds only the first bytes of data
Partial(data) == [kind |-> "partial", doc |-> data.doc]

\* a writer that writes to the target itself
SameFilePath(filePath) == filePath

\* const tempFilePath = filePath + '.tmp' + Date.now() + random
TempFilePath(filePath) == "temp"

\* the target after `content` was put at `path`
TargetAfter(path, content) == IF path = "target" THEN content ELSE disk

\* the temporary sibling after `content` was put at `path`
TempAfter(path, content) == IF path = "temp" THEN content ELSE writer.temp

\* a cleanup that leaves the sibling in place
NotUnlinked(temp, ok) == temp

\* fs.unlinkSync(tempFilePath): the sibling is gone when the call succeeds
Unlinked(temp, ok) == IF ok THEN NoFile ELSE temp

\* the text written: a Document of the store, stringified
WriteData == {Stringify(d) : d \in DocInputs \cup {EmptyDoc, SiblingDoc}}

WriteBegin(data) ==
    /\ writer.pc \in {"idle", "returned", "threw"}
    /\ writer' = [pc |-> "open", data |-> data, prev |-> disk, temp |-> NoFile,
                  failed |-> FALSE, unlinked |-> FALSE]
    /\ last' = Step("atomicWrite", "s1", NoKey, data, Undefined, "running", FALSE, disk, <<>>)
    /\ UNCHANGED <<iter, fields, bridge, pending, disk, cache, defaults, constructed, keyListeners, anyListeners,
                   handles, timers>>

\* writeFileSync creates the sibling and writes its first bytes, or fails
WriteOpen(ok) ==
    LET path == TempFilePath("target")
    IN  /\ writer.pc = "open"
        /\ disk' = IF ok THEN TargetAfter(path, Partial(writer.data)) ELSE disk
        /\ writer' = [writer EXCEPT
                         !.temp = IF ok THEN TempAfter(path, Partial(writer.data)) ELSE @,
                         !.pc = IF ok THEN "write" ELSE "cleanup",
                         !.failed = ~ok]
        /\ UNCHANGED <<iter, fields, bridge, pending, cache, defaults, constructed, keyListeners, anyListeners,
                       handles, timers, last>>

\* writeFileSync writes the rest and returns, or fails with the file half written
WriteRest(ok) ==
    LET path == TempFilePath("target")
    IN  /\ writer.pc = "write"
        /\ disk' = IF ok THEN TargetAfter(path, writer.data) ELSE disk
        /\ writer' = [writer EXCEPT
                         !.temp = IF ok THEN TempAfter(path, writer.data) ELSE @,
                         !.pc = IF ok THEN "rename" ELSE "cleanup",
                         !.failed = ~ok]
        /\ UNCHANGED <<iter, fields, bridge, pending, cache, defaults, constructed, keyListeners, anyListeners,
                       handles, timers, last>>

\* fs.renameSync(tempFilePath, filePath): atomic, or fails and changes nothing
Rename(ok) ==
    LET path == TempFilePath("target")
    IN  /\ writer.pc = "rename"
        /\ disk' = IF ok /\ path # "target" THEN writer.temp ELSE disk
        /\ writer' = [writer EXCEPT
                         !.temp = IF ok THEN NoFile ELSE @,
                         !.pc = IF ok THEN "returned" ELSE "cleanup",
                         !.failed = ~ok]
        /\ last' = IF ok
                   THEN Step("atomicWrite", "s1", NoKey, writer.data, Undefined,
                             "returned", FALSE, writer.prev, <<>>)
                   ELSE last
        /\ UNCHANGED <<iter, fields, bridge, pending, cache, defaults, constructed, keyListeners, anyListeners,
                       handles, timers>>

\* catch (error): try { unlinkSync(tempFilePath) } catch {}; throw error
Cleanup(ok) ==
    LET path == TempFilePath("target")
    IN  /\ writer.pc = "cleanup"
        /\ disk' = IF path = "target" THEN Unlinked(disk, ok) ELSE disk
        /\ writer' = [writer EXCEPT
                         !.temp = IF path = "temp" THEN Unlinked(@, ok) ELSE @,
                         !.pc = "threw",
                         !.unlinked = ok]
        /\ last' = Step("atomicWrite", "s1", NoKey, writer.data, Undefined,
                        "threw", TRUE, writer.prev, <<>>)
        /\ UNCHANGED <<iter, fields, bridge, pending, cache, defaults, constructed, keyListeners, anyListeners,
                       handles, timers>>

\* another process reads the target: fs.readFileSync(filePath)
ReadTarget ==
    /\ last' = Step("readFile", "s2", NoKey, Undefined, disk, "returned", FALSE, disk, <<>>)
    /\ UNCHANGED <<iter, fields, bridge, pending, writer, disk, cache, defaults, constructed, keyListeners,
                   anyListeners, handles, timers>>

NextWrite ==
    \/ \E data \in WriteData : WriteBegin(data)
    \/ \E ok \in BOOLEAN : WriteOpen(ok)
    \/ \E ok \in BOOLEAN : WriteRest(ok)
    \/ \E ok \in BOOLEAN : Rename(ok)
    \/ \E ok \in BOOLEAN : Cleanup(ok)
    \/ ReadTarget

SpecWrite == Init /\ [][NextWrite]_vars

(***************************************************************************)
(* Two instances on one path, each constructed in a process of its own, on *)
(* a file that was absent, unreadable or written before either started;    *)
(* every write succeeds.                                                   *)
(***************************************************************************)
\* no constructor has started
NoneStarted == \A i \in Instances : ~constructed[i] /\ pending[i].phase = "none"

NextInit ==
    \/ \E file \in ExternalFiles : NoneStarted /\ ExternalWrite(file)
    \/ \E i \in Instances, d \in CorruptDefaults : InitializeRead(i, d)
    \/ \E i \in Instances : InitializeWrite(i, TRUE)
    \/ \E i \in Instances, key \in CorruptKeys : Get(i, key, Undefined)

SpecInit == Init /\ [][NextInit]_vars

(***************************************************************************)
(* Vocabulary of the properties.                                           *)
(***************************************************************************)
\* the mutating calls
Mutators == {"set", "setObject", "delete", "clear", "store="}

\* the mutating calls that notify listeners
Notifying == {"set", "delete", "clear"}

\* every call on a store
StoreCalls == Mutators \cup {"new", "get", "has", "store", "onDidChange", "onDidAnyChange"}

\* the Document a file stands for: a missing or unparsable file stands for the defaults
DocOf(file, dflts) == IF Readable(file) THEN Parse(file) ELSE dflts

\* the Document of the file before / after the last call, for the instance that made it
PreDoc == DocOf(last.pre, defaults[last.inst])

PostDoc == DocOf(disk, defaults[last.inst])

\* what get(key) would return now on instance i
GetNow(i, key) == GetResult(cache[i], disk, key, Undefined)

\* what has(key) would return now on instance i
HasNow(i, key) == hasProperty(StoreGetter(disk, defaults[i], TRUE).store, key)

\* the notifications of the last call for one listener list
NotesOf(reg, key) == SelectSeq(last.notes, LAMBDA n : n.reg = reg /\ n.key = key)

\* the callbacks registry reg holds for key on instance i, in registration order
ListOf(i, reg, key) ==
    IF reg = "any" THEN anyListeners[i]
    ELSE LET n == EntryOf(keyListeners[i], key)
         IN  IF n = 0 THEN <<>> ELSE keyListeners[i][n].cbs

\* how many times callback cb is in the list ls
Count(ls, cb) == Cardinality({n \in 1..Len(ls) : ls[n] = cb})

(***************************************************************************)
(* C1.  After set, delete, clear or an assignment to `store` has returned, *)
(* the Document parsed from the file is deep-equal to the instance's cache.*)
(* (The step after the call is still the call's own: no other writer has   *)
(* touched the file.)                                                      *)
(***************************************************************************)
C1_FileEqualsCacheAfterMutation ==
    (last.op \in Mutators /\ last.outcome = "returned")
        => /\ Readable(disk)
           /\ isDeepStrictEqual(Parse(disk), cache[last.inst])

(***************************************************************************)
(* C2.  A value returned by get(key) is the value at key of the last write *)
(* of this process or the value at key in the file.  Under SpecTwo the     *)
(* process is the only writer and its writes succeed, so both are the      *)
(* value at key in the file.                                               *)
(***************************************************************************)
C2_GetReturnsLastWriteOrDisk ==
    last.op = "get"
        => isDeepStrictEqual(last.ret, getProperty(PostDoc, last.key, Undefined))

(***************************************************************************)
(* C3.  When clear() has returned, the file and the cache hold the empty   *)
(* Document, and a get or has made next finds no key.                      *)
(***************************************************************************)
C3_ClearLeavesEmpty ==
    (last.op = "clear" /\ last.outcome = "returned")
        => /\ disk = Stringify(EmptyDoc)
           /\ cache[last.inst] = EmptyDoc
           /\ \A key \in PathStrs :
                 /\ GetNow(last.inst, key) = Undefined
                 /\ ~HasNow(last.inst, key)

(***************************************************************************)
(* C4.  The file's content changes only in a step that is a call on the    *)
(* store or a write by another writer: no call leaves work behind that     *)
(* changes the file later.                                                 *)
(***************************************************************************)
C4_NoDeferredFileChange ==
    [][disk' # disk => last'.op \in StoreCalls \cup {"external"}]_vars

(***************************************************************************)
(* C5.  In a mutating call, the callbacks of a watched key are invoked if  *)
(* and only if the value at that key differs between the Document of the   *)
(* file before the call and the Document of the file after it, and the     *)
(* wildcard callbacks if and only if the two Documents differ.             *)
(***************************************************************************)
C5_NotifiedIffChanged ==
    (last.op \in Notifying /\ last.outcome = "returned")
        => /\ Len(anyListeners[last.inst]) > 0
                => (NotesOf("any", NoKey) # <<>> <=> ~isDeepStrictEqual(PreDoc, PostDoc))
           /\ \A n \in 1..Len(keyListeners[last.inst]) :
                 LET key == keyListeners[last.inst][n].key
                 IN  NotesOf("key", key) # <<>>
                        <=> ~isDeepStrictEqual(getProperty(PreDoc, key, Undefined),
                                               getProperty(PostDoc, key, Undefined))

(***************************************************************************)
(* C6.  In a mutating call that returns and changes the value at a watched *)
(* key in the file from a to b, every callback registered for the key is   *)
(* invoked exactly once, in registration order, with (b, a), where a is    *)
(* the value in the file when the call began; when the Document changes,   *)
(* every registered wildcard callback is invoked exactly once with (new    *)
(* Document, old Document), both taken from the file.                      *)
(***************************************************************************)
C6_CallbacksGetDiskOldAndNew ==
    [][(last'.op \in Notifying /\ last'.outcome = "returned")
          => LET i == last'.inst
                 notesOf(reg, key) ==
                     SelectSeq(last'.notes, LAMBDA n : n.reg = reg /\ n.key = key)
             IN  /\ ~isDeepStrictEqual(PreDoc', PostDoc')
                       => notesOf("any", NoKey)
                            = [m \in 1..Len(anyListeners[i]) |->
                                 [reg |-> "any", key |-> NoKey, cb |-> anyListeners[i][m],
                                  new |-> PostDoc', old |-> PreDoc']]
                 /\ \A n \in 1..Len(keyListeners[i]) :
                       LET e == keyListeners[i][n]
                           a == getProperty(PreDoc', e.key, Undefined)
                           b == getProperty(PostDoc', e.key, Undefined)
                       IN  ~isDeepStrictEqual(a, b)
                              => notesOf("key", e.key)
                                   = [m \in 1..Len(e.cbs) |->
                                        [reg |-> "key", key |-> e.key, cb |-> e.cbs[m],
                                         new |-> b, old |-> a]]]_vars

(***************************************************************************)
(* C7.  A mutating call whose write failed does not return normally.       *)
(***************************************************************************)
C7_WriteFailurePropagates ==
    (last.op \in Mutators /\ last.wfail) => last.outcome = "threw"

(***************************************************************************)
(* C8.  After a mutating call whose write failed, the cache and the file   *)
(* hold the same Document and get(key) returns the value in the file.      *)
(***************************************************************************)
C8_CacheNotAdvancedPastFailedWrite ==
    (last.op \in Mutators /\ last.wfail)
        => /\ isDeepStrictEqual(cache[last.inst], PostDoc)
           /\ \A key \in PathStrs :
                 isDeepStrictEqual(GetNow(last.inst, key),
                                   getProperty(PostDoc, key, Undefined))

(***************************************************************************)
(* C9.  After set(p, v), get(p) returns a value deep-equal to v and the    *)
(* file holds v at path p.                                                 *)
(***************************************************************************)
C9_SetThenGetAndFile ==
    (last.op = "set" /\ last.outcome = "returned")
        => /\ isDeepStrictEqual(GetNow(last.inst, last.key), last.arg)
           /\ Readable(disk)
           /\ isDeepStrictEqual(getProperty(Parse(disk), last.key, Undefined), last.arg)

(***************************************************************************)
(* C10.  The Document of a constructed store is the defaults overlaid by   *)
(* the fields of the file: a field of the file keeps the file's value, a   *)
(* default absent from the file is added, nothing else is in it, and with  *)
(* no file it is the defaults; the constructor writes that Document unless *)
(* the write fails.  A later set on a defaulted key overwrites it.         *)
(***************************************************************************)
C10_DefaultsOverlaidByDisk ==
    /\ last.op = "new"
          => LET doc    == cache[last.inst]
                 dflts  == last.arg
                 onDisk == IF Readable(last.pre) THEN Parse(last.pre) ELSE EmptyDoc
             IN  /\ DOMAIN doc = DOMAIN dflts \cup DOMAIN onDisk
                 /\ \A k \in DOMAIN onDisk : doc[k] = onDisk[k]
                 /\ \A k \in DOMAIN dflts \ DOMAIN onDisk : doc[k] = dflts[k]
                 /\ last.pre = NoFile => doc = dflts
                 /\ (DOMAIN dflts # {} /\ ~last.wfail) => disk = Stringify(doc)
    /\ (last.op = "set" /\ hasProperty(defaults[last.inst], last.key))
          => /\ isDeepStrictEqual(GetNow(last.inst, last.key), last.arg)
             /\ ~last.wfail
                   => isDeepStrictEqual(getProperty(PostDoc, last.key, Undefined), last.arg)

\* a store constructed with defaults {a: {b: "2"}, b: "1"} on a file {a: "2"}
C10_Witness ==
    /\ last.op = "new"
    /\ last.arg = [a |-> [b |-> P("2")], b |-> P("1")]
    /\ last.pre = Stringify([a |-> P("2")])
    /\ cache[last.inst] = [a |-> P("2"), b |-> P("1")]
    /\ disk = Stringify([a |-> P("2"), b |-> P("1")])

\* a set overwrote a defaulted key
C10_WitnessSet ==
    /\ last.op = "set"
    /\ last.key = <<"b">>
    /\ defaults[last.inst] = [a |-> [b |-> P("2")], b |-> P("1")]
    /\ last.arg = P("2")

(***************************************************************************)
(* C11.  When no file existed before construction, then on return of the   *)
(* constructor the file exists and holds the Document of the instance's    *)
(* cache, which is the defaults (the empty Document when none were given); *)
(* the constructor does not throw.                                         *)
(***************************************************************************)
C11_FileExistsAfterConstruction ==
    (last.op = "new" /\ last.pre = NoFile)
        => /\ last.outcome = "returned"
           /\ cache[last.inst] = last.arg
           /\ Readable(disk)
           /\ isDeepStrictEqual(Parse(disk), cache[last.inst])

(***************************************************************************)
(* C12.  When a call on the store (constructor, get, has, set, delete,     *)
(* clear, reading `store` as iteration does) found the file missing or     *)
(* unparsable, the file holds a valid Document when the call returns.      *)
(***************************************************************************)
C12_SelfHealsUnreadableFile ==
    (last.op \in StoreCalls \ {"store=", "onDidChange", "onDidAnyChange"}
        /\ ~Readable(last.pre))
        => Readable(disk)

(***************************************************************************)
(* C13.  Constructing a store on a file that holds garbage does not throw, *)
(* and every get on that instance afterwards returns normally: the value   *)
(* the constructor's defaults give the key, otherwise the default value    *)
(* passed to get (undefined when none was passed).                         *)
(***************************************************************************)
C13_CorruptFileGetsDefault ==
    /\ last.op = "new" => last.outcome = "returned"
    /\ last.op = "get"
          => /\ last.outcome = "returned"
             /\ LET fromDefaults == getProperty(defaults[last.inst], last.key, Undefined)
                IN  last.ret = IF fromDefaults # Undefined THEN fromDefaults ELSE last.arg

\* get('a', 'd') on a store without defaults whose file is still garbage returned 'd'
C13_Witness ==
    /\ last.op = "get"
    /\ disk = Garbage
    /\ defaults[last.inst] = EmptyDoc
    /\ last.key = <<"a">>
    /\ last.arg = P("d")
    /\ last.ret = P("d")

(***************************************************************************)
(* C14.  has(path) returns true exactly when every segment of path, the    *)
(* last included, is an own field of the object reached so far in the      *)
(* store's Document, whatever the value of the leaf; and right after       *)
(* construction has(k) is true for every path the defaults supply under a  *)
(* top-level key the file did not hold.                                    *)
(***************************************************************************)
C14_HasIffEverySegmentOwn ==
    /\ last.op = "has"
          => LET parts == Split(last.key)
                 at(n) == GetWalk(cache[last.inst], SubSeq(parts, 1, n), 1, Undefined)
             IN  (last.ret = True)
                    <=> \A n \in 1..Len(parts) :
                           LET parent == IF n = 1 THEN cache[last.inst] ELSE at(n - 1)
                           IN  IsObject(parent) /\ parts[n] \in DOMAIN parent
    /\ last.op = "new"
          => LET onDisk == IF Readable(last.pre) THEN Parse(last.pre) ELSE EmptyDoc
             IN  \A key \in PathStrs :
                    (hasProperty(last.arg, key) /\ Split(key)[1] \notin DOMAIN onDisk)
                        => HasNow(last.inst, key)

\* the path of the parent of a dotted path: the characters before its last dot
ParentPath(cs) ==
    LET dot == CHOOSE i \in 1..Len(cs) : cs[i] = "." /\ \A j \in (i + 1)..Len(cs) : cs[j] # "."
    IN  SubSeq(cs, 1, dot - 1)

\* the last segment of a path
LeafOf(cs) == Split(cs)[Len(Split(cs))]

(***************************************************************************)
(* C15.  After delete(p) of a present nested path p has returned true,     *)
(* has(p) is false, has(parent of p) is true, get(parent of p) is the      *)
(* parent as it was in the file without the leaf ({} when it had no other  *)
(* field), and every other top-level key of the Document is unchanged.     *)
(***************************************************************************)
C15_DeleteRemovesOnlyLeaf ==
    (last.op = "delete" /\ last.ret = True /\ Includes(last.key, "."))
        => LET parent == ParentPath(last.key)
               top    == Split(last.key)[1]
               before == getProperty(PreDoc, parent, Undefined)
           IN  /\ ~HasNow(last.inst, last.key)
               /\ HasNow(last.inst, parent)
               /\ isDeepStrictEqual(GetNow(last.inst, parent), Remove(before, LeafOf(last.key)))
               /\ DOMAIN PostDoc = DOMAIN PreDoc
               /\ \A k \in DOMAIN PreDoc \ {top} :
                     /\ PostDoc[k] = PreDoc[k]
                     /\ cache[last.inst][k] = PreDoc[k]

(***************************************************************************)
(* C16.  delete(key) returns true exactly when key was present in the      *)
(* Document when the call began, and then has(key) is false afterwards;    *)
(* when it returns false the Document of the file and the cache are the    *)
(* Document the call found and no callback has been invoked.               *)
(***************************************************************************)
C16_DeleteTrueIffRemoved ==
    last.op = "delete"
        => /\ (last.ret = True) <=> hasProperty(PreDoc, last.key)
           /\ last.ret = True => ~HasNow(last.inst, last.key)
           /\ last.ret = False
                 => /\ isDeepStrictEqual(PostDoc, PreDoc)
                    /\ isDeepStrictEqual(cache[last.inst], PreDoc)
                    /\ last.notes = <<>>

(***************************************************************************)
(* C17.  A callback all of whose cancel handles have been called is not    *)
(* invoked by a later notification, and calling a handle, the first time   *)
(* or again, removes no registration but its own: each registry holds a    *)
(* callback as many times as it has handles that were never called.        *)
(***************************************************************************)
C17_CancelRemovesOnlyItsOwn ==
    /\ [](\A i \in Instances, c \in HandleClasses :
             Count(ListOf(i, c.reg, c.key), c.cb) = handles[i][c].issued - handles[i][c].called)
    /\ [][\A c \in HandleClasses :
             (handles[last'.inst][c].issued > 0
                 /\ handles[last'.inst][c].called = handles[last'.inst][c].issued)
                => \A n \in 1..Len(last'.notes) :
                      ~(/\ last'.notes[n].reg = c.reg
                        /\ last'.notes[n].key = c.key
                        /\ last'.notes[n].cb = c.cb)]_vars

(***************************************************************************)
(* C18.  When a callback throws during the dispatch of a mutation, every   *)
(* callback that is due for the mutation has still been invoked: each      *)
(* wildcard callback when the Document changed, each callback of every     *)
(* watched key whose value changed.                                        *)
(***************************************************************************)
C18_ThrowingCallbackSkipsNone ==
    [][(last'.op \in Notifying /\ last'.outcome = "threw")
          => LET i == last'.inst
                 invoked(reg, key, cb) ==
                     \E n \in 1..Len(last'.notes) :
                        /\ last'.notes[n].reg = reg
                        /\ last'.notes[n].key = key
                        /\ last'.notes[n].cb = cb
             IN  /\ ~isDeepStrictEqual(PreDoc', PostDoc')
                       => \A n \in 1..Len(anyListeners[i]) :
                             invoked("any", NoKey, anyListeners[i][n])
                 /\ \A e \in 1..Len(keyListeners[i]) :
                       LET key == keyListeners[i][e].key
                       IN  ~isDeepStrictEqual(getProperty(PreDoc', key, Undefined),
                                              getProperty(PostDoc', key, Undefined))
                              => \A n \in 1..Len(keyListeners[i][e].cbs) :
                                    invoked("key", key, keyListeners[i][e].cbs[n])]_vars

(***************************************************************************)
(* C19.  The callbacks of a mutating call run within the call, after the   *)
(* new Document has been written to the file and stored in the cache: when *)
(* callbacks have been invoked the file holds the cache's Document, it is  *)
(* the Document the wildcard callbacks received, and get(k) and has(k)     *)
(* give the new value each callback of key k received.                     *)
(***************************************************************************)
C19_CallbacksSeeWrittenDocument ==
    (last.op \in Notifying /\ last.notes # <<>>)
        => /\ Readable(disk)
           /\ isDeepStrictEqual(Parse(disk), cache[last.inst])
           /\ \A n \in 1..Len(last.notes) :
                 LET note == last.notes[n]
                 IN  IF note.reg = "any"
                     THEN isDeepStrictEqual(note.new, Parse(disk))
                     ELSE /\ isDeepStrictEqual(GetNow(last.inst, note.key), note.new)
                          /\ HasNow(last.inst, note.key) <=> note.new # Undefined

(***************************************************************************)
(* C20.  In a mutating call that returns, the wildcard callbacks invoked   *)
(* are, when the Document changed, exactly the registered ones, once each  *)
(* in registration order, and the callbacks invoked for a watched key      *)
(* whose value changed are exactly those registered for it, once each in   *)
(* registration order.                                                     *)
(***************************************************************************)
C20_EachOnceInRegistrationOrder ==
    [][(last'.op \in Notifying /\ last'.outcome = "returned")
          => LET i == last'.inst
                 invoked(reg, key) ==
                     LET ns == SelectSeq(last'.notes, LAMBDA n : n.reg = reg /\ n.key = key)
                     IN  [m \in 1..Len(ns) |-> ns[m].cb]
             IN  /\ ~isDeepStrictEqual(PreDoc', PostDoc')
                       => invoked("any", NoKey) = anyListeners[i]
                 /\ \A e \in 1..Len(keyListeners[i]) :
                       LET key == keyListeners[i][e].key
                       IN  ~isDeepStrictEqual(getProperty(PreDoc', key, Undefined),
                                              getProperty(PostDoc', key, Undefined))
                              => invoked("key", key) = keyListeners[i][e].cbs]_vars

(***************************************************************************)
(* C21: when several instances are constructed on the same path, their     *)
(* reads, merges and writes interleaved in any order, then once every      *)
(* constructor has returned each instance's Document and the file hold the *)
(* same content.                                                           *)
(***************************************************************************)
C21_ConstructorsConverge ==
    (/\ \A i \in Instances : constructed[i]
     /\ last.op = "new")
        => /\ Readable(disk)
           /\ \A i \in Instances : cache[i] = Parse(disk)

(***************************************************************************)
(* C22: while a write is in progress (the data goes to a temporary file    *)
(* that is then renamed onto the target), a concurrent reader of the       *)
(* target gets the complete previous content or the complete new content,  *)
(* never a half-written one.                                               *)
(***************************************************************************)
C22_ReaderSeesOldOrNew ==
    /\ disk.kind # "partial"
    /\ writer.pc # "idle" => disk \in {writer.prev, writer.data}
    /\ last.op = "readFile" =>
          /\ last.ret.kind # "partial"
          /\ writer.pc # "idle" => last.ret \in {writer.prev, writer.data}

\* a read made while the temporary file is half written returns the previous
\* content, which differs from the new one
C22_Witness ==
    /\ last.op = "readFile"
    /\ writer.pc = "write"
    /\ writer.temp.kind = "partial"
    /\ last.ret = writer.prev
    /\ writer.prev.kind = "json"
    /\ writer.prev # writer.data

(***************************************************************************)
(* C23: when the write or the rename fails, the deletion of the temporary  *)
(* file is attempted and its own error swallowed, the target keeps its     *)
(* previous content and the original error is thrown again; a write that   *)
(* succeeds leaves the new content and no temporary file.  The temporary   *)
(* file is gone after a failed write whenever its deletion succeeded.      *)
(***************************************************************************)
C23_FailedWriteCleansUpAndRethrows ==
    /\ writer.pc = "returned" =>
          /\ ~writer.failed
          /\ disk = writer.data
          /\ writer.temp = NoFile
    /\ writer.failed => writer.pc \in {"cleanup", "threw"}
    /\ writer.pc \in {"cleanup", "threw"} =>
          /\ writer.failed
          /\ disk = writer.prev
    /\ writer.pc = "threw" =>
          /\ last.op = "readFile" \/ (last.op = "atomicWrite" /\ last.outcome = "threw")
          /\ writer.unlinked => writer.temp = NoFile

\* the rename failed with the data fully written to the temporary file, the
\* deletion succeeded and the error was thrown
C23_Witness ==
    /\ writer.pc = "threw"
    /\ last.op = "atomicWrite"
    /\ last.outcome = "threw"
    /\ writer.unlinked
    /\ writer.temp = NoFile
    /\ disk = writer.prev
    /\ writer.prev.kind = "json"
    /\ writer.prev # writer.data

\* C23 as stated: after any write attempt, successful or failed, no temporary
\* file of that attempt remains
C23_NoTempFileRemains ==
    writer.pc \in {"returned", "threw"} => writer.temp = NoFile

(***************************************************************************)
(* C24: get, set, has and delete called with a key that is not a string    *)
(* throw (a TypeError) at that call, whatever the store holds, the cache   *)
(* being empty or not; none of them returns a value or does nothing.       *)
(***************************************************************************)
C24_NonStringKeyThrows ==
    (/\ last.op \in {"get", "set", "has", "delete"}
     /\ ~IsString(last.key))
        => last.outcome = "threw"

(***************************************************************************)
(* C25: after any sequence of initRenderer() and cleanupMain() calls a     *)
(* responder is registered on the channel exactly when the bridge is       *)
(* Initialized, and never more than one: initRenderer() while Initialized  *)
(* changes nothing, cleanupMain() removes the responder and is a no-op     *)
(* while Uninitialized, initRenderer() after cleanupMain() registers again.*)
(***************************************************************************)
C25_OneResponderIffInitialized ==
    /\ [](/\ bridge.listeners = IF bridge.isInitialized THEN 1 ELSE 0
          /\ (last.op = "initRenderer" /\ last.outcome = "returned")
                => bridge.isInitialized /\ bridge.listeners = 1
          /\ last.op = "cleanupMain" => ~bridge.isInitialized /\ bridge.listeners = 0)
    /\ [][/\ (last'.op = "initRenderer" /\ bridge.isInitialized) => bridge' = bridge
          /\ (last'.op = "cleanupMain" /\ ~bridge.isInitialized) => bridge' = bridge]_vars

\* initRenderer() has registered the responder again after a cleanupMain() or
\* was called twice: the last call returned and one responder is registered
C25_Witness ==
    /\ last.op = "initRenderer"
    /\ last.outcome = "returned"
    /\ bridge.isInitialized
    /\ bridge.listeners = 1

(***************************************************************************)
(* C26: a store constructed in the renderer role while no responder is     *)
(* registered, or while the process has no ipcRenderer, is not             *)
(* constructed: the constructor throws an error whose message names        *)
(* initRenderer, and never goes on with a path obtained otherwise.         *)
(***************************************************************************)
C26_RendererWithoutBridgeThrows ==
    (/\ last.op = "construct"
     /\ last.arg.renderer
     /\ bridge.listeners = 0 \/ ~last.arg.env.ipcRenderer)
        => /\ last.outcome = "threw"
           /\ last.ret \in NamesInitRenderer

(***************************************************************************)
(* C28: the store's file is <base>/<name>.json: name is "config" unless    *)
(* given, base is the host's per-user data directory (in the renderer role *)
(* the one of the bridge's payload, whose version becomes the project      *)
(* version), an absolute cwd replaces base and a relative cwd is joined    *)
(* onto it.                                                                *)
(***************************************************************************)
C28_PathIsBaseNameJson ==
    (/\ last.op = "construct"
     /\ last.outcome = "returned")
        => LET o    == last.arg.options
               host == IF last.arg.renderer THEN bridge.appData.defaultCwd ELSE UserData
               base == IF o.cwd = Rel(<<>>) THEN host
                       ELSE IF o.cwd.abs THEN o.cwd
                       ELSE join(host, o.cwd)
               name == IF o.name = "" THEN "config" ELSE o.name
           IN  /\ fields[last.inst].path = join(base, Rel(<<name \o ".json">>))
               /\ fields[last.inst].path.abs
               /\ (last.arg.renderer /\ o.projectVersion = "")
                     => fields[last.inst].projectVersion = bridge.appData.appVersion

Names == {"a", "b", "c"}

Segments == UNION {[1..n -> Names] : n \in 1..3}

RECURSIVE Dotted(_)
\* the path string of a sequence of property names
Dotted(segs) ==
    IF Len(segs) = 1 THEN <<segs[1]>> ELSE <<segs[1], ".">> \o Dotted(Tail(segs))

\* s is t or a prefix of t
IsPrefix(s, t) == Len(s) <= Len(t) /\ SubSeq(t, 1, Len(s)) = s

(***************************************************************************)
(* C30: after set(p, v) with a dot path p, the Document the instance holds *)
(* has v at p and an object at every proper prefix of p (in place of a     *)
(* missing value or of one that was not an object), and the value at every *)
(* path that is neither a prefix nor an extension of p is the one the      *)
(* Document had before; the file holds that Document when the write        *)
(* succeeded.                                                              *)
(***************************************************************************)
C30_SetCreatesPathAndKeepsTheRest ==
    (/\ last.op = "set"
     /\ IsString(last.key))
        => LET p   == Split(last.key)
               doc == cache[last.inst]
           IN  /\ getProperty(doc, last.key, Undefined) = last.arg
               /\ \A n \in 1..(Len(p) - 1) :
                     IsObject(getProperty(doc, Dotted(SubSeq(p, 1, n)), Undefined))
               /\ \A q \in Segments :
                     (~IsPrefix(q, p) /\ ~IsPrefix(p, q))
                        => getProperty(doc, Dotted(q), Undefined)
                             = getProperty(PreDoc, Dotted(q), Undefined)
               /\ ~last.wfail => Readable(disk) /\ Parse(disk) = doc

\* set('a.b.c', v) on a Document whose a.b was a primitive and which had the
\* fields a.c and b beside it
C30_Witness ==
    /\ last.op = "set"
    /\ last.key = <<"a", ".", "b", ".", "c">>
    /\ ~last.wfail
    /\ Readable(last.pre)
    /\ ~IsObject(getProperty(PreDoc, <<"a", ".", "b">>, Undefined))
    /\ getProperty(PreDoc, <<"a", ".", "b">>, Undefined) # Undefined
    /\ getProperty(PreDoc, <<"a", ".", "c">>, Undefined) # Undefined
    /\ HasOwn(PreDoc, "b")
    /\ getProperty(Parse(disk), <<"a", ".", "b", ".", "c">>, Undefined) = last.arg

(***************************************************************************)
(* C31: get(path, d) returns d (undefined when no d is given) when a       *)
(* segment of path is missing from the stored Document or a value on the   *)
(* way is not an object, and otherwise the value stored at path, whatever  *)
(* it is; d never replaces a value that is present.                        *)
(***************************************************************************)
C31_GetReturnsStoredValueOrDefault ==
    (/\ last.op = "get"
     /\ IsString(last.key))
        => LET doc    == DocOf(last.pre, defaults[last.inst])
               parts  == Split(last.key)
               broken == \E n \in 1..(Len(parts) - 1) :
                            ~IsObject(getProperty(doc, Dotted(SubSeq(parts, 1, n)), Undefined))
               final  == getProperty(doc, last.key, Undefined)
           IN  last.ret = IF broken \/ final = Undefined THEN last.arg ELSE final

(***************************************************************************)
(* The two revisions of the dot-path helpers.  index.ts imports            *)
(* './utils.js'; the repository holds one revision whose setProperty       *)
(* writes into the object it is given and returns that same object, and    *)
(* one that deep-clones first.  Which one set() runs is a choice of the    *)
(* build.                                                                  *)
(***************************************************************************)
Revisions == {"in-place", "cloning"}

\* the defaults object after an in-place setProperty on `initial`, the shallow
\* copy { ...defaults } the `store` getter returns when the file is unreadable:
\* the walk descends into the nested object the copy shares with the defaults
SharedAfter(dflts, key, updated) ==
    LET part == Split(key)[1]
    IN  IF HasOwn(dflts, part) /\ IsObject(dflts[part])
        THEN Put(dflts, part, updated[part])
        ELSE dflts

\* set(key, value) linked against either revision of setProperty
SetLinked(i, key, value, ok1, ok2, revision) ==
    LET g        == StoreGetter(disk, defaults[i], ok1)
        oldStore == Clone(g.store)
        updated  == Updated(g.store, key, value)
        s        == SetWrite(g.file, g.store, updated, ok2)
        d        == handlePossibleChange(i, oldStore, s.store, s.file)
        shared   == revision = "in-place" /\ ~Readable(disk) /\ Includes(key, ".")
    IN  /\ constructed[i]
        /\ cache' = [cache EXCEPT ![i] = s.store]
        /\ disk' = s.file
        /\ defaults' = [defaults EXCEPT ![i] =
                           IF shared THEN SharedAfter(defaults[i], key, updated)
                           ELSE defaults[i]]
        /\ Dispatched(i, d)
        /\ last' = Step("set", i, key, value, Undefined, Outcome(d), g.wfail \/ ~ok2, disk, d.notes)
        /\ UNCHANGED <<iter, fields, bridge, writer, pending, constructed, timers>>

NextUtils ==
    \/ \E d \in DefaultsChoices : Construct("s1", d, TRUE)
    \/ \E file \in ExternalFiles : ExternalWrite(file)
    \/ \E key \in PathStrs, v \in SetValues, ok1 \in Heal(disk), ok2 \in BOOLEAN, r \in Revisions :
          SetLinked("s1", key, v, ok1, ok2, r)
    \/ \E key \in PathStrs : Get("s1", key, Undefined)

SpecUtils == Init /\ [][NextUtils]_vars

(***************************************************************************)
(* C32: the dot-path set and delete never modify the Document they are     *)
(* given, so the defaults handed to the constructor are never altered by   *)
(* any Store operation: once an instance is constructed, no step changes   *)
(* its defaults, and a self-healing rewrite writes them as supplied.       *)
(***************************************************************************)
C32_DefaultsNeverAltered ==
    [][\A i \in Instances : constructed[i] => defaults'[i] = defaults[i]]_vars

(***************************************************************************)
(* One instance that is the file's only writer and whose writes all        *)
(* succeed: construction, then set, delete, clear, the deferred callback   *)
(* of clear, get and has.                                                  *)
(***************************************************************************)
NextSole ==
    \/ \E d \in DefaultsChoices : Construct("s1", d, TRUE)
    \/ \E key \in PathStrs, v \in SetValues : Set("s1", key, v, TRUE, TRUE)
    \/ \E key \in PathStrs : Delete("s1", key, TRUE, TRUE)
    \/ Clear("s1", TRUE, TRUE)
    \/ ClearTimer("s1", TRUE, TRUE)
    \/ \E key \in PathStrs : Get("s1", key, Undefined)
    \/ \E key \in PathStrs : Has("s1", key, TRUE)

SpecSole == Init /\ [][NextSole]_vars

(***************************************************************************)
(* C33: for an instance that is the only writer and whose writes all       *)
(* succeed, get and has agree after any sequence of set, delete, clear and *)
(* timer ticks: when has(k) would answer false, get(k) would answer        *)
(* undefined, and when get(k) would answer a value, has(k) would answer    *)
(* true.                                                                   *)
(***************************************************************************)
C33_GetAndHasAgree ==
    \A key \in PathStrs :
        constructed["s1"] =>
            /\ ~HasNow("s1", key) => GetNow("s1", key) = Undefined
            /\ GetNow("s1", key) # Undefined => HasNow("s1", key)

(***************************************************************************)
(* C34: if the file is not written between two get(k) on one instance,     *)
(* both return the same value, whatever get or has on other keys happen in *)
(* between: a get or has on another key that leaves the file as it was     *)
(* does not change what get(k) answers on that instance.                   *)
(***************************************************************************)
C34_ReadsKeepGetStable ==
    [][(/\ last'.op \in {"get", "has"}
        /\ IsString(last'.key)
        /\ disk' = disk)
           => \A i \in Instances, key \in PathStrs :
                 (i = last'.inst /\ key # last'.key)
                     => GetNow(i, key)' = GetNow(i, key)]_vars

(***************************************************************************)
(* C35: with two instances on one path, calls that do not interleave and   *)
(* no clear(), set(k1, v1) on one instance followed by set(k2, v2) on the  *)
(* other for distinct top-level keys leaves both keys in the file: a set   *)
(* of a top-level key on a readable file writes the file's Document with   *)
(* that one key replaced, whichever instance wrote the file before.        *)
(***************************************************************************)
C35_SequentialSetsKeepBothKeys ==
    (/\ last.op = "set"
     /\ IsString(last.key)
     /\ ~Includes(last.key, ".")
     /\ Readable(last.pre))
        => /\ Readable(disk)
           /\ Parse(disk) = Put(Parse(last.pre), Str(last.key), last.arg)

\* s2 has just set b on a file that held only the a which s1's cache holds too
C35_Witness ==
    /\ last.op = "set"
    /\ last.inst = "s2"
    /\ last.key = <<"b">>
    /\ Readable(last.pre)
    /\ DOMAIN Parse(last.pre) = {"a"}
    /\ cache["s1"] = Parse(last.pre)
    /\ Readable(disk)
    /\ DOMAIN Parse(disk) = {"a", "b"}
    /\ Parse(disk)["a"] = cache["s1"]["a"]

(***************************************************************************)
(* C36: when a callback cancels a subscription while a dispatch is under   *)
(* way, every other callback that is registered and due is still invoked   *)
(* exactly once: in a call that returns, a list that is due and holds a    *)
(* cancelling callback has each of its other callbacks invoked as often as *)
(* the list held it when the call began.                                   *)
(***************************************************************************)
C36_CancelDuringDispatchSkipsNone ==
    [][(last'.op \in Notifying /\ last'.outcome = "returned")
          => LET i == last'.inst
                 times(reg, key, cb) ==
                     Cardinality({n \in 1..Len(last'.notes) :
                                     /\ last'.notes[n].reg = reg
                                     /\ last'.notes[n].key = key
                                     /\ last'.notes[n].cb = cb})
                 cancels(ls) == \E n \in 1..Len(ls) : ls[n] \in Cancelling
                 others(ls) == {ls[n] : n \in 1..Len(ls)} \ Cancelling
             IN  /\ (/\ ~isDeepStrictEqual(PreDoc', PostDoc')
                     /\ cancels(anyListeners[i]))
                       => \A cb \in others(anyListeners[i]) :
                             times("any", NoKey, cb) = Count(anyListeners[i], cb)
                 /\ \A e \in 1..Len(keyListeners[i]) :
                       LET key == keyListeners[i][e].key
                           cbs == keyListeners[i][e].cbs
                       IN  (/\ ~isDeepStrictEqual(getProperty(PreDoc', key, Undefined),
                                                  getProperty(PostDoc', key, Undefined))
                            /\ cancels(cbs))
                              => \A cb \in others(cbs) :
                                    times("key", key, cb) = Count(cbs, cb)]_vars

(***************************************************************************)
(* C37: a callback is never told a value that was not persisted: whenever  *)
(* a mutating call invoked a callback with new value (or Document) N, the  *)
(* file holds N at the key (or as its Document) while the callback runs,   *)
(* also when a write of the call failed.                                   *)
(***************************************************************************)
C37_NotifiedValueIsPersisted ==
    (last.op \in Notifying)
        => \A n \in 1..Len(last.notes) :
              LET note   == last.notes[n]
                  onDisk == IF Readable(disk) THEN Parse(disk) ELSE EmptyDoc
              IN  IF note.reg = "any"
                  THEN Readable(disk) /\ note.new = onDisk
                  ELSE note.new = getProperty(onDisk, note.key, Undefined)

(***************************************************************************)
(* Re-entrant mutation: a callback that calls set() on its own key while   *)
(* it is being notified.  The inner set() runs to completion, its own      *)
(* dispatch included, inside the listener call of the outer dispatch,      *)
(* which then goes on with the values it computed before.  One instance,   *)
(* every write succeeding.                                                 *)
(***************************************************************************)
RECURSIVE SetInside(_, _, _, _)
RECURSIVE RunListInside(_, _, _, _, _, _, _)
RECURSIVE RunKeysInside(_, _, _, _, _, _)

\* for (const listener of listeners) listener(newValue, oldValue), where a
\* re-entrant listener told '1' calls this.set(key, '2') before it returns
RunListInside(i, st, ls, idx, key, new, old) ==
    IF idx > Len(ls) THEN st
    ELSE LET listener == ls[idx]
             invoked  == [st EXCEPT !.notes = Append(@, Note("key", key, listener, new, old))]
             after    == IF listener \in Reentrant /\ new = P("1")
                         THEN SetInside(i, invoked, key, P("2"))
                         ELSE invoked
         IN  RunListInside(i, after, ls, idx + 1, key, new, old)

\* the loop over onDidChangeListeners.entries() with oldStore and freshStore
\* as _handlePossibleChange computed them when it began
RunKeysInside(i, st, entries, n, oldStore, freshStore) ==
    IF n > Len(entries) THEN st
    ELSE LET key      == entries[n].key
             oldValue == getProperty(oldStore, key, Undefined)
             newValue == getProperty(freshStore, key, Undefined)
         IN  RunKeysInside(i,
                           IF isDeepStrictEqual(oldValue, newValue) THEN st
                           ELSE RunListInside(i, st, entries[n].cbs, 1, key, newValue, oldValue),
                           entries, n + 1, oldStore, freshStore)

\* one set(key, value), outermost or called from a listener: st is _store, the
\* file and the notifications made so far
SetInside(i, st, key, value) ==
    LET g          == StoreGetter(st.file, defaults[i], TRUE)
        oldStore   == Clone(g.store)
        s          == SetWrite(g.file, g.store, Updated(g.store, key, value), TRUE)
        freshStore == FreshStore(s.store, s.file)
        any        == IF ~isDeepStrictEqual(oldStore, freshStore)
                      THEN RunList(anyListeners[i], 1, "any", NoKey,
                                   freshStore, oldStore, st.notes).notes
                      ELSE st.notes
    IN  RunKeysInside(i, [store |-> s.store, file |-> s.file, notes |-> any],
                      keyListeners[i], 1, oldStore, freshStore)

SetReentrant(i, key, value) ==
    LET r == SetInside(i, [store |-> cache[i], file |-> disk, notes |-> <<>>], key, value)
    IN  /\ constructed[i]
        /\ cache' = [cache EXCEPT ![i] = r.store]
        /\ disk' = r.file
        /\ last' = Step("set", i, key, value, Undefined, "returned", FALSE, disk, r.notes)
        /\ UNCHANGED <<iter, fields, bridge, writer, pending, defaults, constructed,
                       keyListeners, anyListeners, handles, timers>>

NextReentrant ==
    \/ Construct("s1", EmptyDoc, TRUE)
    \/ \E key \in WatchKeys, cb \in {"f"} \cup Reentrant : OnDidChange("s1", key, cb)
    \/ OnDidAnyChange("s1", "f")
    \/ \E key \in WatchKeys, v \in SetValues : SetReentrant("s1", key, v)

SpecReentrant == Init /\ [][NextReentrant]_vars

(***************************************************************************)
(* C38: when callbacks call set on a watched key during a dispatch, every  *)
(* callback registered for k is notified in mutation order: once the       *)
(* outermost set has returned, the newValue of the last notification a     *)
(* callback got for k is k's value in the Document.                        *)
(***************************************************************************)
C38_LastNotificationIsFinalValue ==
    (last.op = "set")
        => \A n \in 1..Len(last.notes) :
              LET note  == last.notes[n]
                  later == \E m \in (n + 1)..Len(last.notes) :
                              /\ last.notes[m].reg = note.reg
                              /\ last.notes[m].key = note.key
                              /\ last.notes[m].cb = note.cb
              IN  (note.reg = "key" /\ ~later)
                     => note.new = getProperty(cache[last.inst], note.key, Undefined)

(***************************************************************************)
(* set(object) with partial Documents, one of whose keys contains a dot,   *)
(* beside set(key, value), get and writes by another program.              *)
(***************************************************************************)
\* {a: "1"}, {a: "2", b: "1"}, {"a.b": "1"}, {"a.b": "2", b: "2"}
PartialDocs ==
    {[a |-> P("1")],
     [a |-> P("2"), b |-> P("1")],
     [k \in {"a.b"} |-> P("1")],
     [k \in {"a.b", "b"} |-> P("2")]}

NextPartial ==
    \/ \E d \in DefaultsChoices : Construct("s1", d, TRUE)
    \/ \E file \in ExternalFiles : ExternalWrite(file)
    \/ \E o \in PartialDocs, ok1 \in Heal(disk), ok2 \in BOOLEAN : SetObject("s1", o, ok1, ok2)
    \/ \E key \in PathStrs, v \in SetValues, ok1 \in Heal(disk), ok2 \in BOOLEAN :
          Set("s1", key, v, ok1, ok2)
    \/ \E key \in PathStrs : Get("s1", key, Undefined)

SpecPartial == Init /\ [][NextPartial]_vars

====
